---- MODULE Spec2Model ----
(***************************************************************************)
(* Spunky Bot (src/spunky.py): the log-event handlers, the periodic sweep  *)
(* and the ban-point ledger as a state machine.                            *)
(*                                                                         *)
(* Time is counted in whole seconds, the resolution of the                 *)
(* "%Y-%m-%d %H:%M:%S" strings the program stores and compares; scalar     *)
(* chat texts are abbreviated to short tags.  The `player` (alias) table   *)
(* and the fields aliases/num_played/last_visit/country/prettyname only    *)
(* feed chat texts and are left out.                                       *)
(***************************************************************************)
EXTENDS Integers, Sequences, FiniteSets, TLC

VARIABLES
    players,            \* Game.players: slot -> Player
    live,               \* Game.live
    now,                \* time.time(), whole seconds
    ban_list,           \* table ban_list, rows in id order
    ban_points,         \* table ban_points, rows in id order
    xlrstats,           \* table xlrstats: guid -> row
    ffa_lms_gametype,   \* LogParser.ffa_lms_gametype
    ctf_gametype,       \* LogParser.ctf_gametype
    ts_gametype,        \* LogParser.ts_gametype
    allow_cmd_teams,    \* LogParser.allow_cmd_teams
    ts_do_team_balance, \* LogParser.ts_do_team_balance
    tk_autokick,        \* LogParser.tk_autokick (configuration)
    num_kick_specs,     \* TaskManager.num_kick_specs (configuration)
    max_ping,           \* TaskManager.max_ping (configuration)
    urt42_modversion,   \* LogParser.urt42_modversion: which death_cause table
    iamgod,             \* LogParser.iamgod
    log_file,           \* the game log as it is when the bot starts: its lines
    tail,               \* the game log from then on: what was appended, and tell()
    loop,               \* where the thread of read_log is in its loop
    players_lock,       \* the RLock: how often the thread holds it, and where
    out,                \* commands pushed to the RCON handle by the last step
    ev                  \* the last step: the log line / task that was handled

vars == <<players, live, now, ban_list, ban_points, xlrstats, ffa_lms_gametype,
          ctf_gametype, ts_gametype, allow_cmd_teams, ts_do_team_balance,
          tk_autokick,
          num_kick_specs, max_ping, urt42_modversion, iamgod, log_file,
          tail, loop, players_lock, out, ev>>

-----------------------------------------------------------------------------
(* Bounds of the model *)

\* a sweep is run only if it leaves every warning counter at or below this
MaxWarn == 3

\* a Kill line is read only if it leaves every team-kill counter and every
\* forgiveness list at or below this
MaxTk == 6

\* ... and every kill and death counter at or below this
MaxKills == 1

\* ... and at most this many rows in ban_points
MaxPoints == 3

\* the clock of SpecTK stops here
MaxTimeTK == 900

\* the clock of SpecBan stops here
MaxTimeBan == 900

\* in SpecBan a !warn is read only if it leaves at most this many rows in
\* ban_points
MaxPointsBan == 2

\* ... and at most this many rows in ban_list
MaxBansBan == 1

\* the clock of SpecIdent stops here
MaxTimeIdent == 300

\* in SpecFFA a Kill line is read only if it leaves every team-kill counter
\* and every forgiveness list at or below this
MaxTkFFA == 2

-----------------------------------------------------------------------------
(* Program constants *)

World == 1022
TkKickEntries == 5
TkBanDuration == 900
BanFactor == 3
WarnTkDuration == 600
WarnOtherDuration == 300
AdminRole == 40
ModeratorRole == 20
RegularRole == 2
MaxWarnings == 2
SpecGrace == 30

Roles == {0, 1, 2, 20, 40, 60, 80, 100}

\* Player.teams
TeamSpec == 3

-----------------------------------------------------------------------------
(* Guids are sequences of tokens; upper() acts token by token. *)

Upper(tok) ==
    CASE tok = "kemfew"  -> "KEMFEW"
      [] tok = "KemFew"  -> "KEMFEW"
      [] tok = "world"   -> "WORLD"
      [] tok = "Unknown" -> "UNKNOWN"
      [] tok = "none"    -> "NONE"
      [] OTHER           -> tok

\* a containment test that is sensitive to letter case
InExact(marker, guid) == \E i \in 1..Len(guid) : guid[i] = marker

\* `marker in guid.upper()`
InUpper(marker, guid) == \E i \in 1..Len(guid) : Upper(guid[i]) = marker

GuidNone == <<"None">>
GuidWorld == <<"NONE">>
BotGuid(num) == <<"BOT", ToString(num)>>

-----------------------------------------------------------------------------
(* RCON output *)

Kick(num) == [cmd |-> "kick", num |-> num, text |-> ""]
Say(text) == [cmd |-> "say", num |-> -1, text |-> text]
Tell(num, text) == [cmd |-> "tell", num |-> num, text |-> text]
Raw(text) == [cmd |-> "raw", num |-> -1, text |-> text]

\* The handlers below thread a record W = [players, ban_list, ban_points,
\* xlrstats, out] through the statements of the code.
send_rcon(W, command) ==
    IF live THEN [W EXCEPT !.out = Append(@, command)] ELSE W

rcon_say(W, text) == send_rcon(W, Say(text))

rcon_tell(W, num, text) == send_rcon(W, Tell(num, text))

kick_player(W, num) == send_rcon(W, Kick(num))

Here ==
    [players |-> players, ban_list |-> ban_list, ban_points |-> ban_points,
     xlrstats |-> xlrstats, out |-> <<>>]

Commit(W) ==
    /\ players' = W.players
    /\ ban_list' = W.ban_list
    /\ ban_points' = W.ban_points
    /\ xlrstats' = W.xlrstats
    /\ out' = W.out

Kicks(o, num) == {i \in 1..Len(o) : o[i] = Kick(num)}

-----------------------------------------------------------------------------
(* class Player *)

\* Player.__init__, the fields
PlayerFields(player_num, ip_address, guid, name) ==
    [player_num |-> player_num, guid |-> guid, name |-> name,
     registered_user |-> FALSE, admin_role |-> 0,
     kills |-> 0, db_kills |-> 0, killing_streak |-> 0, max_kill_streak |-> 0,
     db_killing_streak |-> 0, deaths |-> 0, db_deaths |-> 0, db_suicide |-> 0,
     head_shots |-> 0, db_head_shots |-> 0, all_hits |-> 0,
     tk_count |-> 0, db_tk_count |-> 0, db_team_death |-> 0,
     tk_victim_names |-> <<>>, tk_killer_names |-> <<>>,
     ping_value |-> 0, high_ping_count |-> 0, spec_warn_count |-> 0,
     warn_counter |-> 0, flags_captured |-> 0, flags_returned |-> 0,
     address |-> ip_address, team |-> TeamSpec, time_joined |-> now,
     welcome_msg |-> TRUE, banned_player |-> FALSE]

\* SELECT COUNT(*) FROM ban_list WHERE (guid = ? OR ip_address = ?) AND expires > ?
ActiveBans(W, guid, ip_address) ==
    {i \in 1..Len(W.ban_list) :
        /\ (W.ban_list[i].guid = guid \/ W.ban_list[i].ip_address = ip_address)
        /\ W.ban_list[i].expires > now}

\* SELECT id FROM ban_list WHERE guid = ?
BansOfGuid(W, guid) == {i \in 1..Len(W.ban_list) : W.ban_list[i].guid = guid}

\* Player.__init__: [raised, W, p].  `geo` is whether the GeoIP lookup of the
\* address yields a country.  The banned announcement formats result[0] of
\* the guid-only query; with no such row the constructor raises TypeError.
Player_init(W, player_num, ip_address, guid, name, geo) ==
    LET p0 == PlayerFields(player_num, ip_address, guid, name) IN
    IF ActiveBans(W, guid, ip_address) # {}
    THEN IF BansOfGuid(W, guid) = {}
         THEN [raised |-> TRUE, W |-> W, p |-> p0]
         ELSE [raised |-> FALSE,
               W |-> send_rcon(W, Raw("banned")),
               p |-> [p0 EXCEPT !.banned_player = TRUE]]
    ELSE [raised |-> FALSE,
          W |-> IF geo THEN rcon_say(W, "connected from") ELSE W,
          p |-> p0]

\* Player.check_database (xlrstats part)
check_database(p, W) ==
    IF p.guid \in DOMAIN W.xlrstats
    THEN LET r == W.xlrstats[p.guid] IN
         [p EXCEPT !.registered_user = TRUE,
                   !.db_kills = r.kills, !.db_deaths = r.deaths,
                   !.db_head_shots = r.headshots, !.db_tk_count = r.team_kills,
                   !.db_team_death = r.team_death,
                   !.db_killing_streak = r.max_kill_streak,
                   !.db_suicide = r.suicides, !.admin_role = r.admin_role]
    ELSE [p EXCEPT !.registered_user = FALSE]

\* Player.save_info
save_info(W, num) ==
    LET p == W.players[num] IN
    IF p.registered_user /\ p.guid \in DOMAIN W.xlrstats
    THEN [W EXCEPT !.xlrstats[p.guid] =
            [@ EXCEPT !.kills = p.db_kills, !.deaths = p.db_deaths,
                      !.headshots = p.db_head_shots, !.team_kills = p.db_tk_count,
                      !.team_death = p.db_team_death,
                      !.max_kill_streak = p.db_killing_streak,
                      !.suicides = p.db_suicide]]
    ELSE W

\* a reset that leaves the flag counters
reset_keep_flags(p) ==
    [p EXCEPT !.kills = 0, !.killing_streak = 0, !.max_kill_streak = 0,
              !.deaths = 0, !.head_shots = 0, !.all_hits = 0, !.tk_count = 0,
              !.tk_victim_names = <<>>, !.tk_killer_names = <<>>,
              !.warn_counter = 0]

\* a reset that also clears the lifetime kills and deaths
reset_lifetime(p) ==
    [p EXCEPT !.kills = 0, !.killing_streak = 0, !.max_kill_streak = 0,
              !.deaths = 0, !.head_shots = 0, !.all_hits = 0, !.tk_count = 0,
              !.tk_victim_names = <<>>, !.tk_killer_names = <<>>,
              !.warn_counter = 0, !.flags_captured = 0, !.flags_returned = 0,
              !.db_kills = 0, !.db_deaths = 0]

\* Player.reset
reset(p) ==
    [p EXCEPT !.kills = 0, !.killing_streak = 0, !.max_kill_streak = 0,
              !.deaths = 0, !.head_shots = 0, !.all_hits = 0, !.tk_count = 0,
              !.tk_victim_names = <<>>, !.tk_killer_names = <<>>,
              !.warn_counter = 0, !.flags_captured = 0, !.flags_returned = 0]

\* Player.ban
ban(W, num, duration, reason) ==
    LET p == W.players[num]
        row == [guid |-> p.guid, ip_address |-> p.address,
                expires |-> duration + now, timestamp |-> now, reason |-> reason]
    IN kick_player([W EXCEPT !.ban_list = Append(@, row)], num)

\* a count of the points of a guid that ignores their expiry
PointsEver(W, guid) ==
    {i \in 1..Len(W.ban_points) : W.ban_points[i].guid = guid}

\* SELECT COUNT(*) FROM ban_points WHERE guid = ? AND expires > ?
ActivePoints(W, guid) ==
    {i \in 1..Len(W.ban_points) :
        W.ban_points[i].guid = guid /\ W.ban_points[i].expires > now}

\* a ban as long as the point
ban_duration_same(duration) == duration

\* Player.add_ban_point: ban duration multiplied by 3
ban_duration(duration) == duration * BanFactor

\* Player.add_ban_point
add_ban_point(W, num, point_type, duration) ==
    LET p == W.players[num]
        row == [guid |-> p.guid, point_type |-> point_type,
                expires |-> duration + now]
        W1 == [W EXCEPT !.ban_points = Append(@, row)]
    IN IF Cardinality(ActivePoints(W1, p.guid)) > 1
       THEN rcon_say(ban(W1, num, ban_duration(duration), point_type),
                     "banned for too many warnings")
       ELSE W1

\* Player.clear_warning
clear_warning(W, num) ==
    LET p == W.players[num]
    IN [W EXCEPT
          !.players[num] = [@ EXCEPT !.warn_counter = 0, !.spec_warn_count = 0,
                                     !.tk_victim_names = <<>>,
                                     !.tk_killer_names = <<>>],
          !.ban_points = SelectSeq(@, LAMBDA r :
                            ~(r.guid = p.guid /\ r.expires > now))]

\* a limit that is reached one entry too late
tk_limit_late(n) == n > TkKickEntries

\* Player.team_kill: len(self.tk_victim_names) >= 5
tk_limit(n) == n >= TkKickEntries

\* team_kill that counts the round only
team_kill_round_only(W, killer, victim, autokick) ==
    [W EXCEPT !.players[killer].tk_count = @ + 1]

\* team_kill that punishes whatever the killer's role is
team_kill_any_role(W, killer, victim, autokick) ==
    LET W1 == [W EXCEPT !.players[killer].tk_count = @ + 1,
                        !.players[killer].db_tk_count = @ + 1]
    IN IF autokick
       THEN LET W2 == [W1 EXCEPT
                         !.players[killer].tk_victim_names = Append(@, victim),
                         !.players[victim].tk_killer_names = Append(@, killer)]
                W3 == rcon_tell(W2, killer, "do not attack teammates")
                W4 == rcon_tell(W3, victim, "type !fp to forgive")
                n == Len(W4.players[killer].tk_victim_names)
            IN IF tk_limit(n)
               THEN kick_player(
                        add_ban_point(rcon_say(W4, "kicked for team killing"),
                                      killer, "tk, auto-kick", TkBanDuration),
                        killer)
               ELSE IF n \in 2..4
               THEN rcon_tell(W4, killer, "tk warning")
               ELSE W4
       ELSE W1

\* Player.team_kill; self = killer
team_kill(W, killer, victim, autokick) ==
    LET W1 == [W EXCEPT !.players[killer].tk_count = @ + 1,
                        !.players[killer].db_tk_count = @ + 1]
    IN IF W1.players[killer].admin_role < RegularRole /\ autokick
       THEN LET W2 == [W1 EXCEPT
                         !.players[killer].tk_victim_names = Append(@, victim),
                         !.players[victim].tk_killer_names = Append(@, killer)]
                W3 == rcon_tell(W2, killer, "do not attack teammates")
                W4 == rcon_tell(W3, victim, "type !fp to forgive")
                n == Len(W4.players[killer].tk_victim_names)
            IN IF tk_limit(n)
               THEN kick_player(
                        add_ban_point(rcon_say(W4, "kicked for team killing"),
                                      killer, "tk, auto-kick", TkBanDuration),
                        killer)
               ELSE IF n \in 2..4
               THEN rcon_tell(W4, killer, "tk warning")
               ELSE W4
       ELSE W1

\* Player.kill
kill(p) ==
    [p EXCEPT !.killing_streak = @ + 1, !.kills = @ + 1, !.db_kills = @ + 1]

\* Player.die
die(p) ==
    LET m == IF p.killing_streak > p.max_kill_streak
             THEN p.killing_streak ELSE p.max_kill_streak
        d == IF m > p.db_killing_streak THEN m ELSE p.db_killing_streak
    IN [p EXCEPT !.max_kill_streak = m, !.db_killing_streak = d,
                 !.killing_streak = 0, !.deaths = @ + 1, !.db_deaths = @ + 1]

\* Player.suicide
suicide(p) == [p EXCEPT !.db_suicide = @ + 1]

\* Player.team_death
team_death(p) == [p EXCEPT !.db_team_death = @ + 1]

\* Player.register_user_db
register_user_db(W, num, role) ==
    LET p == W.players[num] IN
    IF ~p.registered_user
    THEN [W EXCEPT
            !.xlrstats = (p.guid :> [admin_role |-> role, kills |-> 0, deaths |-> 0,
                                     headshots |-> 0, team_kills |-> 0,
                                     team_death |-> 0, max_kill_streak |-> 0,
                                     suicides |-> 0]) @@ @,
            !.players[num] = [@ EXCEPT !.registered_user = TRUE,
                                       !.admin_role = role,
                                       !.welcome_msg = FALSE]]
    ELSE W

-----------------------------------------------------------------------------
(* class LogParser: the handlers of parse_line *)

Has(values, key) == key \in DOMAIN values

NoIp == [address |-> "0.0.0.0", port |-> "0"]

\* LogParser.handle_userinfo.  `values` is the exploded key/value payload.
handle_userinfo(W, player_num, values, geo) ==
    LET complete == Has(values, "cl_guid") /\ Has(values, "name") /\ Has(values, "ip")
        guid == IF Has(values, "cl_guid") THEN values["cl_guid"]
                ELSE IF Has(values, "skill") THEN BotGuid(player_num)
                ELSE GuidNone
        name == IF Has(values, "name") THEN values["name"] ELSE "UnnamedPlayer"
        ip_port == IF Has(values, "ip") THEN values["ip"] ELSE NoIp
        Wa == IF ~complete /\ ~Has(values, "cl_guid") /\ ~Has(values, "skill")
              THEN send_rcon(send_rcon(W, Raw("invalid GUID")), Kick(player_num))
              ELSE W
        Wb == IF ~complete /\ ~Has(values, "name")
              THEN send_rcon(send_rcon(Wa, Raw("invalid name")), Kick(player_num))
              ELSE Wa
        address == ip_port.address
        port == ip_port.port
        Wc == IF port = "1337" \/ port = "1024"
              THEN send_rcon(send_rcon(Wb, Raw("cheater port")), Kick(player_num))
              ELSE Wb
        Wd == IF InUpper("KEMFEW", guid)
              THEN send_rcon(send_rcon(Wc, Raw("cheater GUID")), Kick(player_num))
              ELSE Wc
        We == IF InUpper("WORLD", guid) \/ InUpper("UNKNOWN", guid)
              THEN send_rcon(send_rcon(Wd, Raw("invalid GUID detected")),
                             Kick(player_num))
              ELSE Wd
        created == Player_init(We, player_num, address, guid, name, geo)
    IN IF player_num \notin DOMAIN We.players /\ created.raised
       THEN We
       ELSE
       LET Wf == IF player_num \notin DOMAIN We.players
                 THEN [created.W EXCEPT
                         !.players = (player_num :> check_database(created.p, created.W))
                                     @@ @]
                 ELSE We
           Wg == [Wf EXCEPT !.players[player_num].guid = guid,
                            !.players[player_num].name = name]
       IN IF Wg.players[player_num].banned_player
          THEN send_rcon(Wg, Kick(player_num))
          ELSE Wg

\* LogParser.handle_userinfo_changed; KeyError on an unknown slot
handle_userinfo_changed(W, player_num, values) ==
    IF player_num \notin DOMAIN W.players THEN W
    ELSE LET ok == Has(values, "t") /\ Has(values, "n")
             team == IF ok THEN values["t"] ELSE TeamSpec
             name == IF ok THEN values["n"] ELSE "UnnamedPlayer"
         IN [W EXCEPT !.players[player_num].team = team,
                      !.players[player_num].name = name]

\* handle_disconnect deleting the entry without saving it first
handle_disconnect_unsaved(W, player_num) ==
    IF player_num \notin DOMAIN W.players THEN W
    ELSE [W EXCEPT !.players =
            [n \in DOMAIN W.players \ {player_num} |-> W.players[n]]]

\* LogParser.handle_disconnect; KeyError on an unknown slot
handle_disconnect(W, player_num) ==
    IF player_num \notin DOMAIN W.players THEN W
    ELSE LET W1 == save_info(W, player_num) IN
         [W1 EXCEPT !.players =
            [n \in DOMAIN W1.players \ {player_num} |-> W1.players[n]]]

\* LogParser.death_cause, the 4.2 table and the 4.1 table of find_game_start;
\* "" stands for a KeyError
DeathCause(code) ==
    CASE code = 6  -> "MOD_FALLING"
      [] code = 7  -> "UT_MOD_SUICIDE"
      [] code = 10 -> "MOD_CHANGE_TEAM"
      [] code = 19 -> "UT_MOD_LR300"
      [] code = 25 -> "UT_MOD_HEGRENADE"
      [] code = 33 -> IF urt42_modversion THEN "" ELSE "UT_MOD_BOMBED"
      [] code = 34 -> IF urt42_modversion THEN "UT_MOD_BOMBED" ELSE "UT_MOD_NUKED"
      [] OTHER     -> ""

SuicideReason ==
    {"UT_MOD_SUICIDE", "MOD_FALLING", "MOD_WATER", "MOD_LAVA", "MOD_TRIGGER_HURT",
     "UT_MOD_SPLODED"}

SelfKillReason ==
    {"UT_MOD_HEGRENADE", "UT_MOD_HK69", "UT_MOD_NUKED", "UT_MOD_SLAPPED",
     "UT_MOD_BOMBED"}

\* a team-kill condition that ignores the game type
IsTeamKill_any_gametype(W, killer_id, victim_id, death_cause) ==
    /\ W.players[victim_id].team = W.players[killer_id].team
    /\ victim_id # killer_id
    /\ death_cause # "UT_MOD_BOMBED"

\* the team-kill condition of handle_kill
IsTeamKill(W, killer_id, victim_id, death_cause) ==
    /\ ~ffa_lms_gametype
    /\ W.players[victim_id].team = W.players[killer_id].team
    /\ victim_id # killer_id
    /\ death_cause # "UT_MOD_BOMBED"

\* the killing-spree announcements of handle_kill
SpreeSay(W, killer_id, victim_id) ==
    LET k == W.players[killer_id]
        v == W.players[victim_id]
        W1 == IF k.killing_streak \in {5, 10, 15, 20} /\ killer_id # World
              THEN rcon_say(W, "killing spree") ELSE W
    IN IF v.killing_streak >= 5 /\ k.name # v.name /\ killer_id # World
       THEN rcon_say(W1, "spree ended") ELSE W1

\* LogParser.handle_kill.  non_client: the line names "<non-client>" as killer.
handle_kill(W, killer_line_id, victim_id, code, non_client) ==
    LET death_cause == DeathCause(code)
        killer_id == IF non_client THEN World ELSE killer_line_id
    IN IF \/ death_cause = ""
          \/ victim_id \notin DOMAIN W.players
          \/ killer_id \notin DOMAIN W.players
       THEN W
       ELSE
       LET tk_event == IsTeamKill(W, killer_id, victim_id, death_cause)
           W1 == IF tk_event
                 THEN LET Wt == team_kill(W, killer_id, victim_id, tk_autokick)
                      IN [Wt EXCEPT !.players[victim_id] = team_death(@)]
                 ELSE W
       IN IF \/ death_cause \in SuicideReason
             \/ (killer_id = victim_id /\ death_cause \in SelfKillReason)
          THEN [W1 EXCEPT !.players[victim_id] = die(suicide(@))]
          ELSE IF ~tk_event /\ code # 10
          THEN LET W2 == [W1 EXCEPT !.players[killer_id] = kill(@)]
                   W3 == SpreeSay(W2, killer_id, victim_id)
               IN [W3 EXCEPT !.players[victim_id] = die(@)]
          ELSE W1

\* parse_line, Warmup: reset every player (Game.set_current_map only moves
\* map names)
handle_warmup(W) ==
    [W EXCEPT !.players = [n \in DOMAIN W.players |-> reset(W.players[n])]]

\* LogParser.player_found for a user given by slot number (no modelled name
\* holds a digit, so only the `user == str(player_num)` test can match)
player_found(W, user) == user \in DOMAIN W.players /\ user # World

\* LogParser.update_db_admin_role
update_db_admin_role(W, num, role) ==
    LET g == W.players[num].guid
        W1 == IF g \in DOMAIN W.xlrstats
              THEN [W EXCEPT !.xlrstats[g].admin_role = role] ELSE W
    IN [W1 EXCEPT !.players[num].admin_role = role]

\* the kick of !warn for a victim that already has more than 2 warnings
warn_kick(W, victim) == kick_player(W, victim)

\* handle_say, the last branch: no branch above took the line, because the
\* command is not known or the role of the issuer is below its level
unknown_command(W, issuer) ==
    IF W.players[issuer].admin_role > ModeratorRole
    THEN rcon_tell(W, issuer, "Unknown command")
    ELSE W

\* handle_say, !warn / !w.  args: 0 = no argument, 1 = a name only,
\* 2 = a name and a reason.
say_warn(W, issuer, args, user, reason) ==
    IF issuer \notin DOMAIN W.players THEN W
    ELSE IF W.players[issuer].admin_role < ModeratorRole
         THEN unknown_command(W, issuer)
    ELSE IF args = 0 THEN rcon_tell(W, issuer, "usage")
    ELSE IF args = 1 THEN rcon_tell(W, issuer, "enter a reason")
    ELSE IF ~player_found(W, user) THEN rcon_tell(W, issuer, "No Player found")
    ELSE IF W.players[user].admin_role >= W.players[issuer].admin_role
         THEN rcon_tell(W, issuer, "You cannot warn an admin")
    ELSE IF W.players[user].warn_counter > MaxWarnings
         THEN rcon_say(warn_kick(W, user), "kicked, too many warnings")
    ELSE LET W1 == [W EXCEPT !.players[user].warn_counter = @ + 1]
             more == W1.players[user].warn_counter > 1
             W2 == IF reason = "tk" /\ more
                   THEN add_ban_point(W1, user, "tk, ban by", WarnTkDuration)
                   ELSE IF reason \in {"lang", "spam", "racism"} /\ more
                   THEN add_ban_point(W1, user, reason, WarnOtherDuration)
                   ELSE W1
         IN rcon_say(W2, "WARNING")

\* handle_say, !warnclear / !wc / !wr
say_warnclear(W, issuer, args, user) ==
    IF issuer \notin DOMAIN W.players THEN W
    ELSE IF W.players[issuer].admin_role < AdminRole
         THEN unknown_command(W, issuer)
    ELSE IF args = 0 THEN rcon_tell(W, issuer, "usage")
    ELSE IF ~player_found(W, user) THEN rcon_tell(W, issuer, "No Player found")
    ELSE rcon_say(clear_warning(W, user), "All warnings cleared")

RECURSIVE ClearAll(_, _)
ClearAll(W, todo) ==
    IF todo = {} THEN W
    ELSE LET n == CHOOSE x \in todo : \A y \in todo : x <= y
         IN ClearAll(clear_warning(W, n), todo \ {n})

\* handle_say, !kiss / !clear
say_kiss(W, issuer) ==
    IF issuer \notin DOMAIN W.players THEN W
    ELSE IF W.players[issuer].admin_role < 80 THEN unknown_command(W, issuer)
    ELSE rcon_say(ClearAll(W, DOMAIN W.players), "All player warnings cleared")

\* handle_say, !maprestart
say_maprestart(W, issuer) ==
    IF issuer \notin DOMAIN W.players THEN W
    ELSE IF W.players[issuer].admin_role < 80 THEN unknown_command(W, issuer)
    ELSE handle_warmup(send_rcon(W, Raw("restart")))

\* handle_say, !iamgod (the flag itself is cleared by the action)
say_iamgod(W, issuer) ==
    IF issuer \notin DOMAIN W.players THEN W
    ELSE IF ~iamgod THEN W
    ELSE rcon_tell(IF ~W.players[issuer].registered_user
                   THEN register_user_db(W, issuer, 100)
                   ELSE update_db_admin_role(W, issuer, 100),
                   issuer, "registered as Head Admin")

-----------------------------------------------------------------------------
(* class TaskManager *)

GtvNames == {"GTV-Cam"}

\* 'GTV-' in player_name
IsGtv(name) == name \in GtvNames

\* sweep_kick with the threshold off by one
sweep_kick_late(W, num) ==
    LET p == W.players[num] IN
    IF p.warn_counter > MaxWarnings + 1 /\ p.admin_role < AdminRole
    THEN kick_player(rcon_say(W, "kicked, too many warnings"), num)
    ELSE W

\* the kick branch of check_warnings_and_specs for one player
sweep_kick(W, num) ==
    LET p == W.players[num] IN
    IF p.warn_counter > MaxWarnings /\ p.admin_role < AdminRole
    THEN kick_player(rcon_say(W, "kicked, too many warnings"), num)
    ELSE IF p.high_ping_count > 2 /\ p.admin_role < AdminRole
    THEN kick_player(rcon_say(W, "kicked, ping too high"), num)
    ELSE IF p.spec_warn_count > 2 /\ p.admin_role < ModeratorRole
    THEN kick_player(rcon_say(W, "kicked, spectator too long"), num)
    ELSE W

\* sweep_alert that forgets add_warning
sweep_alert_spec_only(W, num) ==
    LET p == W.players[num] IN
    IF (p.warn_counter = MaxWarnings \/ p.spec_warn_count = 2)
       /\ p.admin_role < AdminRole
    THEN [rcon_say(W, "ALERT") EXCEPT !.players[num].spec_warn_count = @ + 1]
    ELSE W

\* the alert branch
sweep_alert(W, num) ==
    LET p == W.players[num] IN
    IF (p.warn_counter = MaxWarnings \/ p.spec_warn_count = 2)
       /\ p.admin_role < AdminRole
    THEN [rcon_say(W, "ALERT") EXCEPT !.players[num].spec_warn_count = @ + 1,
                                      !.players[num].warn_counter = @ + 1]
    ELSE W

\* sweep_spec that warns from the threshold on
sweep_spec_from_threshold(W, num, counter) ==
    LET p == W.players[num] IN
    IF num_kick_specs > 0
    THEN IF IsGtv(p.name) THEN W
         ELSE IF /\ counter >= num_kick_specs
                 /\ p.team = TeamSpec
                 /\ p.admin_role < ModeratorRole
                 /\ p.time_joined < now - SpecGrace
                 /\ num # World
         THEN rcon_tell([W EXCEPT !.players[num].spec_warn_count = @ + 1],
                        num, "spectator too long")
         ELSE [W EXCEPT !.players[num].spec_warn_count = 0]
    ELSE W

\* the spectator branch; counter = len(game.players) - 1
sweep_spec(W, num, counter) ==
    LET p == W.players[num] IN
    IF num_kick_specs > 0
    THEN IF IsGtv(p.name) THEN W
         ELSE IF /\ counter > num_kick_specs
                 /\ p.team = TeamSpec
                 /\ p.admin_role < ModeratorRole
                 /\ p.time_joined < now - SpecGrace
                 /\ num # World
         THEN rcon_tell([W EXCEPT !.players[num].spec_warn_count = @ + 1],
                        num, "spectator too long")
         ELSE [W EXCEPT !.players[num].spec_warn_count = 0]
    ELSE W

RECURSIVE SweepFrom(_, _, _)
SweepFrom(W, todo, counter) ==
    IF todo = {} THEN W
    ELSE LET n == CHOOSE x \in todo : \A y \in todo : x <= y
         IN SweepFrom(sweep_spec(sweep_alert(sweep_kick(W, n), n), n, counter),
                      todo \ {n}, counter)

\* TaskManager.check_warnings_and_specs
check_warnings_and_specs(W) ==
    SweepFrom(W, DOMAIN W.players, Cardinality(DOMAIN W.players) - 1)

RECURSIVE PingFrom(_, _, _)
PingFrom(W, todo, pings) ==
    IF todo = {} THEN W
    ELSE LET n == CHOOSE x \in todo : \A y \in todo : x <= y
             W1 == IF n \notin DOMAIN W.players THEN W
                   ELSE IF /\ max_ping < pings[n] /\ pings[n] < 999
                           /\ W.players[n].admin_role < AdminRole
                   THEN rcon_tell([W EXCEPT !.players[n].high_ping_count = @ + 1,
                                            !.players[n].ping_value = pings[n]],
                                  n, "ping too high")
                   ELSE [W EXCEPT !.players[n].high_ping_count = 0]
         IN PingFrom(W1, todo \ {n}, pings)

\* check_ping that takes the sentinel 999 for a ping like any other
check_ping_no_sentinel(W, pings) ==
    PingFrom(W, DOMAIN pings,
             [n \in DOMAIN pings |-> IF pings[n] = 999 THEN 998 ELSE pings[n]])

\* TaskManager.check_ping; pings: the slots and pings of the RCON status
check_ping(W, pings) == PingFrom(W, DOMAIN pings, pings)

\* TaskManager.process
process(W, pings) ==
    LET W1 == check_warnings_and_specs(W) IN
    IF max_ping > 0 THEN check_ping(W1, pings) ELSE W1

-----------------------------------------------------------------------------
(* The steps of LogParser.read_log: one log line, one due task, or the wait *)
(* at end of file.                                                           *)

\* what no handler changes: the settings, the log file and the place of
\* the thread in the loop of read_log
Config == <<tk_autokick, num_kick_specs, max_ping, urt42_modversion, log_file,
           tail, loop, players_lock>>
Balance == <<allow_cmd_teams, ts_do_team_balance>>
GameType == <<ffa_lms_gametype, ctf_gametype, ts_gametype>>

\* read_log at end of file: Game.go_live
GoLive ==
    /\ ~live
    /\ live' = TRUE
    /\ out' = <<>>
    /\ ev' = [type |-> "go_live"]
    /\ UNCHANGED <<players, now, ban_list, ban_points, xlrstats, GameType,
                   Balance, Config, iamgod>>

\* time passes
Tick(d, max) ==
    /\ now + d <= max
    /\ now' = now + d
    /\ out' = <<>>
    /\ ev' = [type |-> "tick"]
    /\ UNCHANGED <<players, live, ban_list, ban_points, xlrstats, GameType,
                   Balance, Config, iamgod>>

\* 'g_gametype\\N' in line, for a line with g_gametype code gt below 100:
\* the text of the code begins with the digit N
CodeBegins(gt, N) == (IF gt < 10 THEN gt ELSE gt \div 10) = N

\* an InitGame branch that, like find_game_start, only ever sets a flag
InitGame_sticky(gt) ==
    /\ ffa_lms_gametype' = (ffa_lms_gametype
                              \/ \E N \in {0, 1, 9} : CodeBegins(gt, N))
    /\ ctf_gametype' = (ctf_gametype \/ CodeBegins(gt, 7))
    /\ ts_gametype' = (ts_gametype \/ CodeBegins(gt, 4))
    /\ out' = <<>>
    /\ ev' = [type |-> "InitGame", gt |-> gt]
    /\ UNCHANGED <<players, live, now, ban_list, ban_points, xlrstats,
                   Balance, Config, iamgod>>

\* parse_line, "InitGame:" with g_gametype code gt
InitGame(gt) ==
    /\ ffa_lms_gametype' = (\E N \in {0, 1, 9} : CodeBegins(gt, N))
    /\ ctf_gametype' = CodeBegins(gt, 7)
    /\ ts_gametype' = CodeBegins(gt, 4)
    /\ out' = <<>>
    /\ ev' = [type |-> "InitGame", gt |-> gt]
    /\ UNCHANGED <<players, live, now, ban_list, ban_points, xlrstats,
                   Balance, Config, iamgod>>

\* parse_line, "Warmup:"
Warmup ==
    /\ Commit(handle_warmup(Here))
    /\ allow_cmd_teams' = TRUE
    /\ ev' = [type |-> "Warmup"]
    /\ UNCHANGED <<live, now, GameType, ts_do_team_balance, Config, iamgod>>

\* parse_line, "ClientUserinfo:"
ClientUserinfo(num, values, geo) ==
    /\ Commit(handle_userinfo(Here, num, values, geo))
    /\ ev' = [type |-> "ClientUserinfo", num |-> num, values |-> values,
              geo |-> geo]
    /\ UNCHANGED <<live, now, GameType, Balance, Config, iamgod>>

\* parse_line, "ClientUserinfoChanged:"
ClientUserinfoChanged(num, values) ==
    /\ Commit(handle_userinfo_changed(Here, num, values))
    /\ ev' = [type |-> "ClientUserinfoChanged", num |-> num,
              was |-> IF num \in DOMAIN players THEN players[num].team ELSE -1]
    /\ UNCHANGED <<live, now, GameType, Balance, Config, iamgod>>

\* parse_line, "ClientDisconnect:"
ClientDisconnect(num) ==
    /\ Commit(handle_disconnect(Here, num))
    /\ ev' = [type |-> "ClientDisconnect", num |-> num]
    /\ UNCHANGED <<live, now, GameType, Balance, Config, iamgod>>

\* parse_line, "Kill:"
Kill(killer, victim, code, non_client) ==
    /\ Commit(handle_kill(Here, killer, victim, code, non_client))
    /\ ev' = [type |-> "Kill", killer |-> killer, victim |-> victim,
              code |-> code, non_client |-> non_client]
    /\ UNCHANGED <<live, now, GameType, Balance, Config, iamgod>>

\* parse_line, "say:" with !warn
SayWarn(issuer, args, user, reason) ==
    /\ Commit(say_warn(Here, issuer, args, user, reason))
    /\ ev' = [type |-> "!warn", num |-> issuer, args |-> args, user |-> user,
              reason |-> reason]
    /\ UNCHANGED <<live, now, GameType, Balance, Config, iamgod>>

\* parse_line, "say:" with !warnclear
SayWarnClear(issuer, args, user) ==
    /\ Commit(say_warnclear(Here, issuer, args, user))
    /\ ev' = [type |-> "!warnclear", num |-> issuer, args |-> args, user |-> user]
    /\ UNCHANGED <<live, now, GameType, Balance, Config, iamgod>>

\* parse_line, "say:" with !kiss
SayKiss(issuer) ==
    /\ Commit(say_kiss(Here, issuer))
    /\ ev' = [type |-> "!kiss", num |-> issuer]
    /\ UNCHANGED <<live, now, GameType, Balance, Config, iamgod>>

\* parse_line, "say:" with !maprestart
SayMaprestart(issuer) ==
    /\ Commit(say_maprestart(Here, issuer))
    /\ ev' = [type |-> "!maprestart", num |-> issuer]
    /\ UNCHANGED <<live, now, GameType, Balance, Config, iamgod>>

\* parse_line, "say:" with !iamgod
SayIamgod(issuer) ==
    /\ Commit(say_iamgod(Here, issuer))
    /\ iamgod' = IF issuer \in DOMAIN players THEN FALSE ELSE iamgod
    /\ ev' = [type |-> "!iamgod", num |-> issuer]
    /\ UNCHANGED <<live, now, GameType, Balance, Config>>

\* schedule.run_pending: TaskManager.process is due
Process(pings) ==
    /\ LET W == process(Here, pings) IN
          /\ \A n \in DOMAIN players :
                /\ W.players[n].warn_counter <= MaxWarn
                /\ W.players[n].spec_warn_count <= MaxWarn
          /\ Commit(W)
    /\ ev' = [type |-> "process"]
    /\ UNCHANGED <<live, now, GameType, Balance, Config, iamgod>>

-----------------------------------------------------------------------------
(* Initial states: the globals after Game() and LogParser() are built *)

\* Game.__init__: the bot is player 1022, 'World'
WorldPlayer == PlayerFields(World, "127.0.0.1", GuidWorld, "World")

XlrRow(role) ==
    [admin_role |-> role, kills |-> 0, deaths |-> 0, headshots |-> 0,
     team_kills |-> 0, team_death |-> 0, max_kill_streak |-> 0, suicides |-> 0]

\* LogParser.__init__: iamgod iff no row of xlrstats has admin_role 100
NoHeadAdmin(x) == \A g \in DOMAIN x : x[g].admin_role # 100

InitState ==
    /\ now = 0
    /\ players_lock = [count |-> 0, at |-> "none"]
    /\ loop = [pc |-> "run_pending", due |-> {}, todo |-> {}, running |-> {},
               ran |-> {}, polls |-> 0]
    /\ players = (World :> [WorldPlayer EXCEPT !.time_joined = 0])
    /\ live = FALSE
    /\ ctf_gametype = FALSE
    /\ ts_gametype = FALSE
    /\ allow_cmd_teams = TRUE
    /\ ts_do_team_balance = FALSE
    /\ iamgod = NoHeadAdmin(xlrstats)
    /\ out = <<>>
    /\ ev = [type |-> "start"]

\* the specifications that begin after start-up do not look at the log
InitBase ==
    /\ InitState
    /\ log_file = <<>>
    /\ tail = [written |-> <<>>, tell |-> 0]

-----------------------------------------------------------------------------
(* SpecWarn: warnings, the sweep and the commands that reset them *)

G0 == <<"G0">>
GA == <<"GA">>
GF == <<"GF">>

Address(guid) == IF guid = G0 THEN "10.0.0.1" ELSE "10.0.0.2"

Userinfo(guid, name) ==
    [cl_guid |-> guid, name |-> name,
     ip |-> [address |-> Address(guid), port |-> "27960"]]

SlotsWarn == {0, 1}

\* the ClientUserinfo lines of SpecWarn: <<slot, payload>>
ConnectsWarn ==
    {<<0, Userinfo(G0, "Bob")>>, <<0, Userinfo(GA, "Bob")>>,
     <<1, Userinfo(GF, "Bob")>>}

InitWarn ==
    /\ xlrstats = (GA :> XlrRow(40)) @@ (GF :> XlrRow(60))
    /\ ban_list = <<>>
    /\ ban_points = <<>>
    /\ tk_autokick = TRUE
    /\ num_kick_specs \in {0, 1}
    /\ max_ping = 0
    /\ urt42_modversion = TRUE
    /\ ffa_lms_gametype = FALSE
    /\ InitBase

NextWarn ==
    \/ GoLive
    \/ Warmup
    \/ \E c \in ConnectsWarn : ClientUserinfo(c[1], c[2], FALSE)
    \/ \E n \in SlotsWarn : ClientDisconnect(n)
    \/ \E i \in SlotsWarn, u \in SlotsWarn : SayWarn(i, 2, u, "obj")
    \/ \E i \in SlotsWarn, u \in SlotsWarn : SayWarnClear(i, 1, u)
    \/ \E i \in SlotsWarn : SayMaprestart(i)
    \/ \E i \in SlotsWarn : SayKiss(i)
    \/ \E i \in SlotsWarn : SayIamgod(i)
    \/ Process(<<>>)

SpecWarn == InitWarn /\ [][NextWarn]_vars

-----------------------------------------------------------------------------
(* Claims on the generic-warning sweep (SpecWarn) *)

\* player n has more than 2 warnings and a role below Admin
Armed(n) ==
    /\ n \in DOMAIN players
    /\ players[n].warn_counter > MaxWarnings
    /\ players[n].admin_role < AdminRole

\* C5 as stated: every sweep that runs while a connected player has 3 or more
\* generic warnings and a role below Admin (40) emits a Kick for that player.
C5_SweepKicks ==
    [][ev'.type = "process" =>
          \A n \in DOMAIN players : Armed(n) => Kicks(out', n) # {}]_vars

\* C5 amended: every sweep that runs while the bot is live (Game.live) and a
\* connected player has 3 or more generic warnings and a role below Admin
\* emits a Kick for that player.
C5_SweepKicksWhenLive ==
    [][ev'.type = "process" /\ live =>
          \A n \in DOMAIN players : Armed(n) => Kicks(out', n) # {}]_vars

C5_Witness ==
    /\ ev.type = "process"
    /\ \E n \in DOMAIN players : Armed(n) /\ Kicks(out, n) # {}

\* C6 as stated: neither the sweep nor a !warn against a player that already
\* has more than 2 warnings emits a Kick for a player whose role is Admin (40)
\* or higher.
C6_AdminNeverWarnKicked ==
    [][\A n \in DOMAIN players :
          /\ players[n].admin_role >= AdminRole
          /\ \/ ev'.type = "process"
             \/ ev'.type = "!warn" /\ ev'.user = n
                  /\ players[n].warn_counter > MaxWarnings
          => Kicks(out', n) = {}]_vars

\* the events C10 lists as removing the player or resetting the warnings
WarnResets == {"!warnclear", "!kiss", "Warmup", "!maprestart", "ClientDisconnect"}

-----------------------------------------------------------------------------
(* SpecTK: team kills of an unprivileged player in a team game type *)

G1 == <<"G1">>

\* "tk, auto-kick" point of G0 left in the database by an earlier session
OldPoint == [guid |-> G0, point_type |-> "tk, auto-kick", expires |-> TkBanDuration]

\* the ClientUserinfo lines of SpecTK: <<slot, payload>>
ConnectsTK == {<<0, Userinfo(G0, "Bob")>>, <<1, Userinfo(G1, "Al")>>}

\* the ClientUserinfoChanged lines of SpecTK: <<slot, payload>>
TeamsTK == {<<0, [t |-> 1, n |-> "Bob"]>>, <<1, [t |-> 1, n |-> "Al"]>>}

\* a step is taken only if it leaves every counter within the bounds
WithinTK ==
    /\ \A n \in DOMAIN players :
          /\ players[n].tk_count <= MaxTk
          /\ Len(players[n].tk_killer_names) <= MaxTk
          /\ players[n].kills <= MaxKills
          /\ players[n].deaths <= MaxKills
    /\ Len(ban_points) <= MaxPoints

InitTK ==
    /\ xlrstats = <<>>
    /\ ban_list = <<>>
    /\ ban_points \in {<<>>, <<OldPoint>>}
    /\ tk_autokick = TRUE
    /\ num_kick_specs = 0
    /\ max_ping = 0
    /\ urt42_modversion = TRUE
    /\ ffa_lms_gametype = FALSE
    /\ InitBase

\* a Kill line of SpecTK: slot 0 kills slot 1 with the LR300
KillTK == Kill(0, 1, 19, FALSE) /\ WithinTK'

NextTK ==
    \/ GoLive
    \/ Tick(TkBanDuration, MaxTimeTK)
    \/ \E c \in ConnectsTK : ClientUserinfo(c[1], c[2], FALSE)
    \/ \E c \in TeamsTK : ClientUserinfoChanged(c[1], c[2])
    \/ \E n \in {0, 1} : ClientDisconnect(n)
    \/ KillTK

SpecTK == InitTK /\ [][NextTK]_vars

-----------------------------------------------------------------------------
(* Claims on the team-kill auto-kick (SpecTK) *)

\* the step is a Kill line that brings the killer's unforgiven entries from
\* four to five
TkToFive(k) ==
    /\ ev'.type = "Kill"
    /\ ev'.killer = k
    /\ k \in DOMAIN players
    /\ Len(players[k].tk_victim_names) = TkKickEntries - 1
    /\ Len(players'[k].tk_victim_names) = TkKickEntries

\* the step inserts exactly one ban point: 'tk, auto-kick' of 900 s for k
OneTkPoint(k) ==
    /\ Len(ban_points') = Len(ban_points) + 1
    /\ SubSeq(ban_points', 1, Len(ban_points)) = ban_points
    /\ ban_points'[Len(ban_points')] =
          [guid |-> players[k].guid, point_type |-> "tk, auto-kick",
           expires |-> now + TkBanDuration]

\* C1 as stated: a team kill that brings the killer's unforgiven entries to
\* exactly 5 triggers, in that event, exactly one Kick for the killer and
\* exactly one ban-point insertion of 900 s.
C1_OneKickOnePoint ==
    [][\A k \in {0, 1} : TkToFive(k) =>
          /\ Cardinality(Kicks(out', k)) = 1
          /\ OneTkPoint(k)]_vars

\* C1 amended: such a team kill inserts exactly one ban point of 900 s; it
\* emits no Kick while the bot is not live, and while it is live it emits one
\* Kick for the killer, plus a second one (from the ban) if the killer's
\* guid already had an active ban point.
C1_KicksAndOnePointWhenLive ==
    [][\A k \in {0, 1} : TkToFive(k) =>
          /\ OneTkPoint(k)
          /\ Cardinality(Kicks(out', k)) =
                IF ~live THEN 0
                ELSE IF ActivePoints(Here, players[k].guid) = {} THEN 1
                ELSE 2]_vars

C1_Witness ==
    /\ ev.type = "Kill"
    /\ live
    /\ 0 \in DOMAIN players
    /\ Len(players[0].tk_victim_names) = TkKickEntries
    /\ Cardinality(Kicks(out, 0)) = 1
    /\ Len(ban_points) = 1
    /\ ban_points[1].expires = now + TkBanDuration

\* the step is a Kill line on which the auto-kick of killer k fires
AutoKick(k) ==
    /\ ev'.type = "Kill"
    /\ ev'.killer = k
    /\ k \in DOMAIN players
    /\ Len(ban_points') > Len(ban_points)
    /\ ban_points'[Len(ban_points')].point_type = "tk, auto-kick"

\* C2 as stated: immediately after the team-kill auto-kick fires for a
\* killer, that killer's list of unforgiven team-kill entries is empty.
C2_ListEmptyAfterAutoKick ==
    [][\A k \in {0, 1} : AutoKick(k) => players'[k].tk_victim_names = <<>>]_vars

-----------------------------------------------------------------------------
(* SpecFFA: Kill lines while the game type changes between matches *)

\* g_gametype of the InitGame lines: FFA, Team Survivor, Jump
GameTypesFFA == {0, 4, 9}

\* the ClientUserinfoChanged lines of SpecFFA: <<slot, payload>>
TeamsFFA ==
    {<<0, [t |-> 1, n |-> "Bob"]>>, <<0, [t |-> 2, n |-> "Bob"]>>,
     <<1, [t |-> 1, n |-> "Al"]>>}

\* death causes of the Kill lines: MOD_FALLING, UT_MOD_LR300, UT_MOD_BOMBED
CausesFFA == {6, 19, 34}

\* a step is taken only if it leaves every counter within the bounds
WithinFFA ==
    \A n \in DOMAIN players :
       /\ players[n].tk_count <= MaxTkFFA
       /\ Len(players[n].tk_killer_names) <= MaxTkFFA
       /\ players[n].kills <= MaxKills
       /\ players[n].deaths <= MaxKills

\* a Kill line of SpecFFA
KillFFA(killer, victim, code, non_client) ==
    Kill(killer, victim, code, non_client) /\ WithinFFA'

InitFFA ==
    /\ xlrstats = <<>>
    /\ ban_list = <<>>
    /\ ban_points = <<>>
    /\ tk_autokick = TRUE
    /\ num_kick_specs = 0
    /\ max_ping = 0
    /\ urt42_modversion = TRUE
    /\ ffa_lms_gametype = FALSE
    /\ InitBase

NextFFA ==
    \/ GoLive
    \/ \E gt \in GameTypesFFA : InitGame(gt)
    \/ \E c \in ConnectsTK : ClientUserinfo(c[1], c[2], FALSE)
    \/ \E c \in TeamsFFA : ClientUserinfoChanged(c[1], c[2])
    \/ \E v \in {0, 1}, code \in CausesFFA : KillFFA(0, v, code, FALSE)

SpecFFA == InitFFA /\ [][NextFFA]_vars

-----------------------------------------------------------------------------
(* Claims on team-kill accounting under FFA, LMS and Jump (SpecFFA) *)

\* the team-kill accounting of player n: round and lifetime team-kill
\* counters, team-death counter and both forgiveness lists
TkAccount(p) ==
    <<p.tk_count, p.db_tk_count, p.db_team_death, p.tk_victim_names,
      p.tk_killer_names>>

\* C7: while the match is classified FFA/LMS/Jump, no Kill line changes any
\* player's round or lifetime team-kill counter, team-death counter or
\* forgiveness lists, or inserts a ban point.
C7_NoTkAccountingInFFA ==
    [][ev'.type = "Kill" /\ ffa_lms_gametype =>
          /\ DOMAIN players' = DOMAIN players
          /\ \A n \in DOMAIN players :
                TkAccount(players'[n]) = TkAccount(players[n])
          /\ ban_points' = ban_points]_vars

C7_Witness ==
    /\ ev.type = "Kill"
    /\ ffa_lms_gametype
    /\ ~ev.non_client
    /\ ev.killer # ev.victim
    /\ ev.code = 19
    /\ {ev.killer, ev.victim} \subseteq DOMAIN players
    /\ players[ev.killer].team = players[ev.victim].team
    /\ players[ev.killer].team = 1
    /\ players[ev.killer].kills = 1
    /\ TkAccount(players[ev.killer]) = <<0, 0, 0, <<>>, <<>>>>

-----------------------------------------------------------------------------
(* SpecBan: ban points and bans of a warned player while time passes *)

\* one ClientUserinfo payload with every field present
UserinfoAt(guid, name, address, port) ==
    [cl_guid |-> guid, name |-> name, ip |-> [address |-> address, port |-> port]]

\* the ClientUserinfo lines of SpecBan: <<slot, payload>>; slot 1 is the
\* Admin GA
ConnectsBan ==
    {<<0, UserinfoAt(G0, "Bob", "10.0.0.1", "27960")>>,
     <<1, UserinfoAt(GA, "Ann", "10.0.0.2", "27960")>>}

\* reasons of the !warn lines: 'lang' gives a point of 300 s, 'tk' one of 600 s
ReasonsBan == {"lang", "tk"}

\* a step is taken only if it leaves the tables within the bounds
WithinBan == Len(ban_points) <= MaxPointsBan /\ Len(ban_list) <= MaxBansBan

\* a !warn line of SpecBan: the Admin in slot 1 warns slot 0
WarnBan(reason) == SayWarn(1, 2, 0, reason) /\ WithinBan'

InitBan ==
    /\ xlrstats = (GA :> XlrRow(AdminRole))
    /\ ban_list = <<>>
    /\ ban_points = <<>>
    /\ tk_autokick = TRUE
    /\ num_kick_specs = 0
    /\ max_ping = 0
    /\ urt42_modversion = TRUE
    /\ ffa_lms_gametype = FALSE
    /\ InitBase

NextBan ==
    \/ GoLive
    \/ Tick(WarnOtherDuration, MaxTimeBan)
    \/ \E c \in ConnectsBan : ClientUserinfo(c[1], c[2], FALSE)
    \/ \E reason \in ReasonsBan : WarnBan(reason)
    \/ SayWarnClear(1, 1, 0)

SpecBan == InitBan /\ [][NextBan]_vars

-----------------------------------------------------------------------------
(* Claims on the ban-point ledger (SpecBan) *)

\* the step inserts one ban point
PointInserted == Len(ban_points') = Len(ban_points) + 1

\* the row the step inserted
NewPoint == ban_points'[Len(ban_points')]

\* before the step the guid of the new point had a point that is still active
HadActivePoint ==
    \E i \in 1..Len(ban_points) :
       ban_points[i].guid = NewPoint.guid /\ ban_points[i].expires > now

\* the step stores one ban for the guid of the new point, expiring 3 x the
\* point's base duration from now, with the point's type as reason
BanStored ==
    /\ Len(ban_list') = Len(ban_list) + 1
    /\ SubSeq(ban_list', 1, Len(ban_list)) = ban_list
    /\ LET b == ban_list'[Len(ban_list')] IN
          /\ b.guid = NewPoint.guid
          /\ b.expires = now + BanFactor * (NewPoint.expires - now)
          /\ b.reason = NewPoint.point_type

\* the step emits a Kick for a player with the guid of the new point
OwnerKicked ==
    \E n \in DOMAIN players :
       players[n].guid = NewPoint.guid /\ Kicks(out', n) # {}

\* C3 as stated: whenever a ban point is inserted for an identity that
\* already has a ban point whose expiry is in the future, a ban record is
\* stored with expiry now + 3 x the new point's base duration and the point's
\* type as reason, and a Kick is emitted for the player.
C3_SecondPointBansAndKicks ==
    [][PointInserted /\ HadActivePoint => BanStored /\ OwnerKicked]_vars

\* C3 amended: whenever a ban point is inserted for an identity that already
\* has a ban point whose expiry is in the future, a ban record is stored with
\* expiry now + 3 x the new point's base duration and the point's type as
\* reason; a Kick for the player is emitted if and only if the bot is live.
C3_SecondPointBansKicksWhenLive ==
    [][PointInserted /\ HadActivePoint => BanStored /\ (OwnerKicked <=> live)]_vars

C3_Witness ==
    /\ ev.type = "!warn"
    /\ ev.reason = "tk"
    /\ live
    /\ Len(ban_points) = 2
    /\ ban_points[1].guid = ban_points[2].guid
    /\ ban_points[1].point_type = "lang"
    /\ ban_points[1].expires > now
    /\ ban_points[2].expires = now + WarnTkDuration
    /\ Len(ban_list) = 1
    /\ ban_list[1].expires = now + BanFactor * WarnTkDuration
    /\ ban_list[1].reason = "tk, ban by"
    /\ Kicks(out, 0) # {}

\* C4: only concurrently active ban points count: inserting a ban point for
\* an identity whose earlier points have all reached their expiry, or were
\* deleted by clear-warnings, or that has no earlier point, never issues a
\* ban.
C4_NoBanWithoutActivePoint ==
    [][PointInserted /\ ~HadActivePoint => ban_list' = ban_list]_vars

C4_Witness ==
    /\ ev.type = "!warn"
    /\ Len(ban_points) = 2
    /\ ban_points[1].guid = ban_points[2].guid
    /\ ban_points[1].expires <= now
    /\ ban_points[2].expires \in {now + WarnOtherDuration, now + WarnTkDuration}
    /\ 0 \in DOMAIN players
    /\ players[0].warn_counter = MaxWarnings + 1
    /\ ban_list = <<>>

-----------------------------------------------------------------------------
(* SpecIdent: identity lines against the ban list and the cheat markers *)

\* a 900 s ban of G0 at 10.0.0.1, stored 600 s before the bot was started
OldBan ==
    [guid |-> G0, ip_address |-> "10.0.0.1", expires |-> WarnOtherDuration,
     timestamp |-> WarnOtherDuration - BanFactor * WarnOtherDuration,
     reason |-> "lang"]

\* the guids of SpecIdent that hold KEMFEW, WORLD or UNKNOWN in some case
MarkedGuids == {<<"a", "kemfew">>, <<"Unknown">>, <<"KemFew", "b">>, <<"world">>}

\* the source ports the program kicks
MarkedPorts == {"1337", "1024"}

\* the ClientUserinfo lines of SpecIdent: <<slot, payload>>
ConnectsIdent ==
    {<<0, UserinfoAt(G0, "Bob", "10.0.0.1", "27960")>>,
     <<0, UserinfoAt(G1, "Bob", "10.0.0.1", "27960")>>,
     <<0, UserinfoAt(G1, "Bob", "10.0.0.3", "27960")>>,
     <<0, UserinfoAt(G1, "Bob", "10.0.0.3", "1337")>>,
     <<0, UserinfoAt(G1, "Bob", "10.0.0.3", "1024")>>,
     <<0, [cl_guid |-> G1, ip |-> [address |-> "10.0.0.3", port |-> "27960"]]>>}
    \cup {<<0, UserinfoAt(g, "Bob", "10.0.0.3", "27960")>> : g \in MarkedGuids}
    \cup {<<1, UserinfoAt(G0, "Bob", "10.0.0.1", "27960")>>,
          <<1, UserinfoAt(<<"a", "kemfew">>, "Bob", "10.0.0.3", "27960")>>}

InitIdent ==
    /\ xlrstats = <<>>
    /\ ban_list \in {<<>>, <<OldBan>>}
    /\ ban_points = <<>>
    /\ tk_autokick = TRUE
    /\ num_kick_specs = 0
    /\ max_ping = 0
    /\ urt42_modversion = TRUE
    /\ ffa_lms_gametype = FALSE
    /\ InitBase

NextIdent ==
    \/ GoLive
    \/ Tick(WarnOtherDuration, MaxTimeIdent)
    \/ \E c \in ConnectsIdent, geo \in BOOLEAN : ClientUserinfo(c[1], c[2], geo)
    \/ \E n \in {0, 1} : ClientDisconnect(n)

SpecIdent == InitIdent /\ [][NextIdent]_vars

-----------------------------------------------------------------------------
(* Claims on identity lines (SpecIdent) *)

\* the step handles an identity line
Identity == ev'.type = "ClientUserinfo"

\* ... for a slot that holds no player yet
FirstSeen == Identity /\ ev'.num \notin DOMAIN players

\* the ban records that match the guid or the address of the line
MatchingBans ==
    {i \in 1..Len(ban_list) :
        \/ ban_list[i].guid = ev'.values.cl_guid
        \/ ban_list[i].ip_address = ev'.values.ip.address}

\* the line has every field and neither a marked guid nor a marked port
Unmarked ==
    /\ DOMAIN ev'.values = {"cl_guid", "name", "ip"}
    /\ ev'.values.cl_guid \notin MarkedGuids
    /\ ev'.values.ip.port \notin MarkedPorts

\* the line has a marked guid or a marked port
Marked ==
    \/ ev'.values.cl_guid \in MarkedGuids
    \/ ev'.values.ip.port \in MarkedPorts

\* C8 as stated, read for a bot that is live and an address of which GeoIP
\* knows the country: when a slot is first seen with a guid or an address
\* for which a ban record with expiry later than now exists, the identity
\* line emits a Kick for the slot; when every matching ban record has expiry
\* at or before now, no ban-related Kick is emitted and the connection is
\* announced.
C8_BannedKickedOthersAnnounced ==
    [][FirstSeen /\ live /\ ev'.geo =>
          /\ (\E i \in MatchingBans : ban_list[i].expires > now)
                => Kicks(out', ev'.num) # {}
          /\ (\A i \in MatchingBans : ban_list[i].expires <= now) /\ Unmarked
                => /\ Kicks(out', ev'.num) = {}
                   /\ \E j \in 1..Len(out') : out'[j] = Say("connected from")]_vars

\* C9 as stated: every identity line whose guid contains KEMFEW, WORLD or
\* UNKNOWN in any letter case, or whose source port is 1337 or 1024, emits a
\* Kick for that slot; an identity line with none of these markers, all
\* fields present and no active ban emits no Kick.
C9_MarkedKickedOthersNot ==
    [][Identity =>
          /\ Marked => Kicks(out', ev'.num) # {}
          /\ Unmarked /\ (\A i \in MatchingBans : ban_list[i].expires <= now)
                => Kicks(out', ev'.num) = {}]_vars

\* C9 amended: while the bot is live, every identity line whose guid
\* contains KEMFEW, WORLD or UNKNOWN in any letter case, or whose source port
\* is 1337 or 1024, emits a Kick for that slot, and an identity line with
\* none of these markers and all fields present emits a Kick exactly if the
\* slot's player carries the banned flag (set when the slot was first seen
\* with an active ban, and kept while the slot stays occupied); while the
\* bot is not live no identity line emits a Kick.
C9_MarkedKickedWhenLive ==
    [][Identity =>
          /\ Marked /\ live => Kicks(out', ev'.num) # {}
          /\ Unmarked /\ live
                => (Kicks(out', ev'.num) # {}
                      <=> /\ ev'.num \in DOMAIN players'
                          /\ players'[ev'.num].banned_player)
          /\ ~live => out' = <<>>]_vars

C9_Witness ==
    /\ ev.type = "ClientUserinfo"
    /\ live
    /\ ev.values.cl_guid = <<"a", "kemfew">>
    /\ ev.values.ip.port = "27960"
    /\ ev.num \in DOMAIN players
    /\ ~players[ev.num].banned_player
    /\ Kicks(out, ev.num) # {}

-----------------------------------------------------------------------------
(* SpecSpec: the spectator branch of the sweep *)

MaxSpecWarn == 5
MaxTimeSpec == 90

GM == <<"GM">>

\* the ClientUserinfo lines of SpecSpec: <<slot, payload>>
ConnectsSpec ==
    {<<0, Userinfo(G0, "Bob")>>, <<1, Userinfo(G1, "Al")>>,
     <<1, Userinfo(GM, "Mod")>>, <<1, Userinfo(G1, "GTV-Cam")>>}

\* the ClientUserinfoChanged lines of SpecSpec: <<slot, payload>>
TeamsSpec ==
    {<<0, [t |-> 1, n |-> "Bob"]>>, <<0, [t |-> 3, n |-> "Bob"]>>,
     <<1, [t |-> 3, n |-> "Al"]>>}

\* schedule.run_pending: TaskManager.process is due; the step is taken only
\* if it leaves the three warning counters at or below cap
ProcessWithin(pings, cap) ==
    /\ LET W == process(Here, pings) IN
          /\ \A n \in DOMAIN players :
                /\ W.players[n].warn_counter <= cap
                /\ W.players[n].spec_warn_count <= cap
                /\ W.players[n].high_ping_count <= cap
          /\ Commit(W)
    /\ ev' = [type |-> "process", pings |-> pings]
    /\ UNCHANGED <<live, now, GameType, Balance, Config, iamgod>>

InitSpec ==
    /\ xlrstats = (GM :> XlrRow(ModeratorRole))
    /\ ban_list = <<>>
    /\ ban_points = <<>>
    /\ tk_autokick = TRUE
    /\ num_kick_specs \in {1, 2}
    /\ max_ping = 0
    /\ urt42_modversion = TRUE
    /\ ffa_lms_gametype = FALSE
    /\ InitBase

NextSpec ==
    \/ GoLive
    \/ Tick(SpecGrace, MaxTimeSpec)
    \/ \E c \in ConnectsSpec : ClientUserinfo(c[1], c[2], FALSE)
    \/ \E c \in TeamsSpec : ClientUserinfoChanged(c[1], c[2])
    \/ \E n \in {0, 1} : ClientDisconnect(n)
    \/ ProcessWithin(<<>>, MaxSpecWarn)

SpecSpec == InitSpec /\ [][NextSpec]_vars

-----------------------------------------------------------------------------
(* Claims on the spectator sweep (SpecSpec) *)

\* the number of connected players the sweep counts: World is left out
Connected == Cardinality(DOMAIN players) - 1

\* slot n holds a spectator the sweep does not exempt: role below Moderator,
\* no GTV- name, connected for more than the grace period
NonExemptSpec(n) ==
    /\ n \in DOMAIN players
    /\ n # World
    /\ players[n].team = TeamSpec
    /\ players[n].admin_role < ModeratorRole
    /\ ~IsGtv(players[n].name)
    /\ players[n].time_joined < now - SpecGrace

\* C11 as stated: at a sweep with the spectator check configured, a
\* non-exempt spectator's spectator-warning counter grows whenever the number
\* of connected players is at or above the threshold.
C11_WarnedAtOrAbove ==
    [][ev'.type = "process" =>
        \A n \in DOMAIN players :
            NonExemptSpec(n) /\ Connected >= num_kick_specs
            => players'[n].spec_warn_count > players[n].spec_warn_count]_vars

\* C11 amended: the counter grows when the number of connected players is
\* strictly above the threshold; at or below it, the sweep leaves the
\* counter at zero.
C11_WarnedStrictlyAbove ==
    [][ev'.type = "process" =>
        \A n \in DOMAIN players :
            NonExemptSpec(n) =>
                IF Connected > num_kick_specs
                THEN players'[n].spec_warn_count > players[n].spec_warn_count
                ELSE players'[n].spec_warn_count = 0]_vars

\* a sweep has just warned a spectator with the population one above the
\* threshold
C11_Witness ==
    /\ ev.type = "process"
    /\ 0 \in DOMAIN players
    /\ players[0].team = TeamSpec
    /\ players[0].spec_warn_count = 1
    /\ Connected = num_kick_specs + 1

\* C12: a player who was playing on a team and has just moved to spectator
\* (the move is the line handled right before the sweep, so no time has
\* passed since) is not given a spectator warning by that sweep.
C12_NoWarningRightAfterMove ==
    [][(/\ ev.type = "ClientUserinfoChanged"
        /\ ev'.type = "process"
        /\ ev.num \in DOMAIN players
        /\ ev.was \in {1, 2}
        /\ players[ev.num].team = TeamSpec)
       => players'[ev.num].spec_warn_count <= players[ev.num].spec_warn_count]_vars

-----------------------------------------------------------------------------
(* SpecPing: the ping sweep *)

MaxHighPing == 4

\* max_ping of the configuration
PingLimit == 200

\* ping 999: the server's value for a client that is not connected yet
PingSentinel == 999

\* the player lists of the RCON status: slot -> ping
StatusPing ==
    [{0, 1} -> {PingLimit, PingLimit + 1, PingSentinel}]
    \cup {(1 :> PingLimit + 1)}

\* the ClientUserinfo lines of SpecPing: <<slot, payload>>
ConnectsPing == {<<0, Userinfo(G0, "Bob")>>, <<1, Userinfo(GA, "Ann")>>}

InitPing ==
    /\ xlrstats = (GA :> XlrRow(AdminRole))
    /\ ban_list = <<>>
    /\ ban_points = <<>>
    /\ tk_autokick = TRUE
    /\ num_kick_specs = 0
    /\ max_ping = PingLimit
    /\ urt42_modversion = TRUE
    /\ ffa_lms_gametype = FALSE
    /\ InitBase

NextPing ==
    \/ GoLive
    \/ \E c \in ConnectsPing : ClientUserinfo(c[1], c[2], FALSE)
    \/ \E n \in {0, 1} : ClientDisconnect(n)
    \/ \E pings \in StatusPing : ProcessWithin(pings, MaxHighPing)

SpecPing == InitPing /\ [][NextPing]_vars

-----------------------------------------------------------------------------
(* Claims on the ping sweep (SpecPing) *)

\* the ping the status reports for slot n offends and n is below Admin
Offending(pings, n) ==
    /\ max_ping < pings[n]
    /\ pings[n] < PingSentinel
    /\ players[n].admin_role < AdminRole

-----------------------------------------------------------------------------
(* SpecKill: team kills by players of different roles, auto-kick on or off *)

MaxTkKill == 1

GR == <<"GR">>

\* the ClientUserinfo lines of SpecKill: <<slot, payload>>
ConnectsKill ==
    {<<0, Userinfo(G0, "Bob")>>, <<1, Userinfo(G1, "Al")>>,
     <<1, Userinfo(GR, "Reg")>>}

\* g_gametype of the InitGame lines: FFA and Team Survivor
GameTypesKill == {0, 4}

\* death causes of the Kill lines: UT_MOD_LR300, UT_MOD_BOMBED
CausesKill == {19, 34}

\* the Kill lines counted so far: team kills and kills of every player
RECURSIVE KillsCounted(_)
KillsCounted(todo) ==
    IF todo = {} THEN 0
    ELSE LET n == CHOOSE x \in todo : TRUE
         IN players[n].tk_count + players[n].kills + KillsCounted(todo \ {n})

\* a step is taken only if it leaves the number of counted Kill lines, and
\* every player's deaths, within the bound
WithinKill ==
    /\ KillsCounted(DOMAIN players) <= MaxTkKill
    /\ \A n \in DOMAIN players : players[n].deaths <= MaxTkKill

\* a Kill line of SpecKill
KillKill(killer, victim, code) ==
    Kill(killer, victim, code, FALSE) /\ WithinKill'

InitKill ==
    /\ xlrstats = (GR :> XlrRow(RegularRole))
    /\ ban_list = <<>>
    /\ ban_points = <<>>
    /\ tk_autokick \in BOOLEAN
    /\ num_kick_specs = 0
    /\ max_ping = 0
    /\ urt42_modversion = TRUE
    /\ ffa_lms_gametype = FALSE
    /\ InitBase

NextKill ==
    \/ GoLive
    \/ \E gt \in GameTypesKill : InitGame(gt)
    \/ \E c \in ConnectsKill : ClientUserinfo(c[1], c[2], FALSE)
    \/ \E c \in TeamsTK : ClientUserinfoChanged(c[1], c[2])
    \/ \E k \in {0, 1}, code \in CausesKill : KillKill(k, 1 - k, code)

SpecKill == InitKill /\ [][NextKill]_vars

-----------------------------------------------------------------------------
(* Claims on team-kill accounting (SpecKill) *)

\* the line about to be handled is a Kill of one connected player by another
\* of the same team, not by bomb, in a match that is not FFA/LMS/Jump
TeamKillLine ==
    /\ ev'.type = "Kill"
    /\ ~ffa_lms_gametype
    /\ ~ev'.non_client
    /\ ev'.killer # ev'.victim
    /\ ev'.killer \in DOMAIN players
    /\ ev'.victim \in DOMAIN players
    /\ players[ev'.killer].team = players[ev'.victim].team
    /\ DeathCause(ev'.code) \notin {"", "UT_MOD_BOMBED"}

\* the killer's round and lifetime team-kill counters go up by one
TkCounted ==
    /\ players'[ev'.killer].tk_count = players[ev'.killer].tk_count + 1
    /\ players'[ev'.killer].db_tk_count = players[ev'.killer].db_tk_count + 1

\* one entry is appended on both sides of the forgiveness relation
TkListed ==
    /\ players'[ev'.killer].tk_victim_names =
           Append(players[ev'.killer].tk_victim_names, ev'.victim)
    /\ players'[ev'.victim].tk_killer_names =
           Append(players[ev'.victim].tk_killer_names, ev'.killer)

\* the forgiveness lists of killer and victim are left as they were
TkNotListed ==
    /\ players'[ev'.killer].tk_victim_names = players[ev'.killer].tk_victim_names
    /\ players'[ev'.victim].tk_killer_names = players[ev'.victim].tk_killer_names

\* C14 as stated: every such Kill line counts the team kill and appends one
\* entry on both sides of the forgiveness relation.
C14_TkCountedAndListed ==
    [][TeamKillLine => TkCounted /\ TkListed]_vars

\* C14 amended: every such Kill line counts the team kill; the entries are
\* appended if the killer's role is below Regular and the team-kill
\* auto-kick is enabled, and the lists are left alone otherwise.
C14_TkCountedListedIfPunishable ==
    [][TeamKillLine =>
        /\ TkCounted
        /\ IF players[ev'.killer].admin_role < RegularRole /\ tk_autokick
           THEN TkListed ELSE TkNotListed]_vars

\* a team kill of slot 1 by slot 0 has been counted and listed
C14_Witness ==
    /\ ev.type = "Kill"
    /\ ev.killer = 0
    /\ ev.victim = 1
    /\ {0, 1} \subseteq DOMAIN players
    /\ players[0].tk_count = 1
    /\ players[0].db_tk_count = 1
    /\ players[0].tk_victim_names = <<1>>
    /\ players[1].tk_killer_names = <<0>>

-----------------------------------------------------------------------------
(* handle_say: the forgiveness commands *)

\* list.remove(x) while the list holds x
Without(list, x) == SelectSeq(list, LAMBDA e : e # x)

Elements(list) == {list[i] : i \in 1..Len(list)}

\* Player.clear_tk
clear_tk(p, killer) == [p EXCEPT !.tk_killer_names = Without(@, killer)]

\* Player.clear_killed_me
clear_killed_me(p, victim) == [p EXCEPT !.tk_victim_names = Without(@, victim)]

\* Player.clear_all_tk
clear_all_tk(p) == [p EXCEPT !.tk_killer_names = <<>>]

\* handle_say, !forgiveprev / !fp / !f; game.players[...] of a slot that is
\* not connected raises KeyError, which parse_line swallows
say_forgiveprev(W, issuer) ==
    IF issuer \notin DOMAIN W.players THEN W
    ELSE LET killed_me == W.players[issuer].tk_killer_names IN
         IF killed_me = <<>> THEN rcon_tell(W, issuer, "No one to forgive")
         ELSE LET forgive_player_num == killed_me[Len(killed_me)] IN
              IF forgive_player_num \notin DOMAIN W.players THEN W
              ELSE LET W1 == [W EXCEPT !.players[issuer] =
                                           clear_tk(@, forgive_player_num)]
                       W2 == [W1 EXCEPT !.players[forgive_player_num] =
                                           clear_killed_me(@, issuer)]
                   IN rcon_say(W2, "has forgiven")

\* the loop of !forgiveall over list(set(killed_me)), small slot numbers in
\* ascending order: [W, done]; done is FALSE if a KeyError ended the loop
RECURSIVE ForgiveFrom(_, _, _)
ForgiveFrom(W, todo, victim) ==
    IF todo = {} THEN [W |-> W, done |-> TRUE]
    ELSE LET n == CHOOSE x \in todo : \A y \in todo : x <= y IN
         IF n \notin DOMAIN W.players THEN [W |-> W, done |-> FALSE]
         ELSE ForgiveFrom([W EXCEPT !.players[n] = clear_killed_me(@, victim)],
                          todo \ {n}, victim)

\* handle_say, !forgiveall / !fa
say_forgiveall(W, issuer) ==
    IF issuer \notin DOMAIN W.players THEN W
    ELSE LET killed_me == W.players[issuer].tk_killer_names IN
         IF killed_me = <<>> THEN rcon_tell(W, issuer, "No one to forgive")
         ELSE LET W1 == [W EXCEPT !.players[issuer] = clear_all_tk(@)]
                  r == ForgiveFrom(W1, Elements(killed_me), issuer)
              IN IF r.done THEN rcon_say(r.W, "has forgiven") ELSE r.W

\* parse_line, "say:" with !forgiveprev
SayForgivePrev(issuer) ==
    /\ Commit(say_forgiveprev(Here, issuer))
    /\ ev' = [type |-> "!forgiveprev", num |-> issuer]
    /\ UNCHANGED <<live, now, GameType, Balance, Config, iamgod>>

\* parse_line, "say:" with !forgiveall
SayForgiveAll(issuer) ==
    /\ Commit(say_forgiveall(Here, issuer))
    /\ ev' = [type |-> "!forgiveall", num |-> issuer]
    /\ UNCHANGED <<live, now, GameType, Balance, Config, iamgod>>

-----------------------------------------------------------------------------
(* SpecForgive: team kills, disconnects and the forgiveness commands *)

MaxTkForgive == 2

G2 == <<"G2">>

\* the ClientUserinfo lines of SpecForgive: <<slot, payload>>
ConnectsForgive ==
    {<<0, Userinfo(G0, "Bob")>>, <<1, Userinfo(G1, "Al")>>,
     <<2, Userinfo(G2, "Vic")>>}

\* the Kill lines of SpecForgive: <<killer, victim>>
KillsForgive == {<<0, 2>>, <<1, 2>>, <<0, 1>>}

\* a step is taken only if it leaves every list and lifetime counter within
\* the bound
WithinForgive ==
    \A n \in DOMAIN players :
       /\ Len(players[n].tk_killer_names) <= MaxTkForgive
       /\ Len(players[n].tk_victim_names) <= MaxTkForgive
       /\ players[n].db_tk_count <= MaxTkForgive
       /\ players[n].db_team_death <= MaxTkForgive

\* a Kill line of SpecForgive, with the LR300
KillForgive(killer, victim) ==
    Kill(killer, victim, 19, FALSE) /\ WithinForgive'

InitForgive ==
    /\ xlrstats = <<>>
    /\ ban_list = <<>>
    /\ ban_points = <<>>
    /\ tk_autokick = TRUE
    /\ num_kick_specs = 0
    /\ max_ping = 0
    /\ urt42_modversion = TRUE
    /\ ffa_lms_gametype = FALSE
    /\ InitBase

NextForgive ==
    \/ GoLive
    \/ \E c \in ConnectsForgive : ClientUserinfo(c[1], c[2], FALSE)
    \/ \E n \in {0, 1} : ClientDisconnect(n)
    \/ \E k \in KillsForgive : KillForgive(k[1], k[2])
    \/ \E i \in {1, 2} : SayForgivePrev(i)
    \/ \E i \in {1, 2} : SayForgiveAll(i)

SpecForgive == InitForgive /\ [][NextForgive]_vars

-----------------------------------------------------------------------------
(* Claims on forgiveness (SpecForgive) *)

\* after the step, the relation holds no entry for killer k and victim v
Forgiven(k, v) ==
    /\ k \notin Elements(players'[v].tk_killer_names)
    /\ k \in DOMAIN players' => v \notin Elements(players'[k].tk_victim_names)

\* the step leaves the entries that do not concern the pairs (k, v), k in ks
OthersKept(ks, v) ==
    /\ DOMAIN players' = DOMAIN players
    /\ \A n \in DOMAIN players :
          /\ n # v => players'[n].tk_killer_names = players[n].tk_killer_names
          /\ n \notin ks => players'[n].tk_victim_names = players[n].tk_victim_names
          /\ n \in ks =>
                SelectSeq(players'[n].tk_victim_names, LAMBDA e : e # v)
                    = SelectSeq(players[n].tk_victim_names, LAMBDA e : e # v)
    /\ SelectSeq(players'[v].tk_killer_names, LAMBDA e : e \notin ks)
           = SelectSeq(players[v].tk_killer_names, LAMBDA e : e \notin ks)

\* the killer that !forgiveprev of slot v forgives: the latest one
LatestKiller(v) ==
    players[v].tk_killer_names[Len(players[v].tk_killer_names)]

\* C15: after !forgiveprev (the latest killer being connected) and after
\* !forgiveall (for every killer of the victim's list, connected or not) the
\* victim's killed-me list has no entry for a forgiven killer, that killer's
\* victims list has no entry for the victim, and the other entries are
\* unchanged.
C15_ForgivenOnBothSides ==
    [][/\ (/\ ev'.type = "!forgiveprev"
           /\ ev'.num \in DOMAIN players
           /\ players[ev'.num].tk_killer_names # <<>>
           /\ LatestKiller(ev'.num) \in DOMAIN players)
          => /\ Forgiven(LatestKiller(ev'.num), ev'.num)
             /\ OthersKept({LatestKiller(ev'.num)}, ev'.num)
       /\ (/\ ev'.type = "!forgiveall"
           /\ ev'.num \in DOMAIN players
           /\ players[ev'.num].tk_killer_names # <<>>)
          => /\ \A k \in Elements(players[ev'.num].tk_killer_names) :
                   Forgiven(k, ev'.num)
             /\ OthersKept(Elements(players[ev'.num].tk_killer_names), ev'.num)
      ]_vars

-----------------------------------------------------------------------------
(* Team balance: Game.get_gamestats, Game.balance_teams and the handlers *)

\* Player.teams
TeamName(team) ==
    CASE team = 0 -> "green" [] team = 1 -> "red" [] team = 2 -> "blue"
      [] OTHER -> "spectator"

\* Game.rcon_forceteam
ForceTeam(num, team) == [cmd |-> "forceteam", num |-> num, text |-> TeamName(team)]

\* the players of a team
TeamOf(W, team) == {n \in DOMAIN W.players : W.players[n].team = team}

\* Game.get_gamestats
get_gamestats(W) ==
    [red |-> Cardinality(TeamOf(W, 1)), blue |-> Cardinality(TeamOf(W, 2)),
     spectator |-> Cardinality(TeamOf(W, 3))]

\* p_list.sort(cmp_ab): latest time_joined first; the sort is stable, so
\* players that joined in the same second keep the order of the dictionary
\* (ascending for small slot numbers)
RECURSIVE SortJoined(_, _)
SortJoined(W, todo) ==
    IF todo = {} THEN <<>>
    ELSE LET n == CHOOSE x \in todo : \A y \in todo :
                     \/ W.players[x].time_joined > W.players[y].time_joined
                     \/ /\ W.players[x].time_joined = W.players[y].time_joined
                        /\ x <= y
         IN <<n>> \o SortJoined(W, todo \ {n})

RECURSIVE ForceAll(_, _, _)
ForceAll(W, p_list, team) ==
    IF p_list = <<>> THEN W
    ELSE ForceAll(send_rcon(W, ForceTeam(Head(p_list), team)), Tail(p_list), team)

\* a number of players to move that rounds the half up
num_ptm_up(surplus) == (surplus + 1) \div 2

\* math.floor((game_data[team1] - game_data[team2]) / 2)
num_ptm(surplus) == surplus \div 2

\* the moves of balance_teams from team1 to team2
MoveFrom(W, team1, team2) ==
    LET W1 == send_rcon(W, Raw("bigtext AUTOBALANCING TEAMS..."))
        n == num_ptm(Cardinality(TeamOf(W, team1)) - Cardinality(TeamOf(W, team2)))
        p_list == SortJoined(W1, TeamOf(W1, team1))
        W2 == ForceAll(W1, SubSeq(p_list, 1, n), team2)
    IN rcon_say(W2, "Autobalance complete!")

\* Game.balance_teams
balance_teams(W, game_data) ==
    IF game_data.red - game_data.blue > 1 THEN MoveFrom(W, 1, 2)
    ELSE IF game_data.blue - game_data.red > 1 THEN MoveFrom(W, 2, 1)
    ELSE rcon_say(W, "Teams are already balanced")

Abs(x) == IF x < 0 THEN -x ELSE x

\* handle_team_balance that announces the deferred balance without noting it
handle_team_balance_forgetful(W, allow, ts_do) ==
    LET game_data == get_gamestats(W) IN
    IF Abs(game_data.red - game_data.blue) > 1
    THEN IF allow
         THEN [W |-> balance_teams(W, game_data), ts_do |-> ts_do]
         ELSE IF ts_gametype
         THEN [W |-> rcon_say(W, "Teams will be balanced at the end of the round!"),
               ts_do |-> ts_do]
         ELSE [W |-> W, ts_do |-> ts_do]
    ELSE [W |-> rcon_say(W, "Teams are already balanced"), ts_do |-> ts_do]

\* LogParser.handle_team_balance: [W, ts_do]; allow and ts_do are
\* allow_cmd_teams and ts_do_team_balance at the call
handle_team_balance(W, allow, ts_do) ==
    LET game_data == get_gamestats(W) IN
    IF Abs(game_data.red - game_data.blue) > 1
    THEN IF allow
         THEN [W |-> balance_teams(W, game_data), ts_do |-> ts_do]
         ELSE IF ts_gametype
         THEN [W |-> rcon_say(W, "Teams will be balanced at the end of the round!"),
               ts_do |-> TRUE]
         ELSE [W |-> W, ts_do |-> ts_do]
    ELSE [W |-> rcon_say(W, "Teams are already balanced"), ts_do |-> ts_do]

\* Player.reset_flag_stats
reset_flag_stats(p) == [p EXCEPT !.flags_captured = 0, !.flags_returned = 0]

\* parse_line, "say:" with !teams
SayTeams(issuer) ==
    /\ IF ~ffa_lms_gametype
       THEN LET r == handle_team_balance(Here, allow_cmd_teams, ts_do_team_balance)
            IN Commit(r.W) /\ ts_do_team_balance' = r.ts_do
       ELSE Commit(Here) /\ UNCHANGED ts_do_team_balance
    /\ ev' = [type |-> "!teams", num |-> issuer]
    /\ UNCHANGED <<live, now, GameType, allow_cmd_teams, Config, iamgod>>

\* parse_line, "InitRound:"
InitRound ==
    /\ IF ctf_gametype
       THEN /\ Commit([Here EXCEPT !.players =
                          [n \in DOMAIN players |-> reset_flag_stats(players[n])]])
            /\ UNCHANGED allow_cmd_teams
       ELSE /\ Commit(Here)
            /\ allow_cmd_teams' = IF ts_gametype THEN FALSE ELSE allow_cmd_teams
    /\ ev' = [type |-> "InitRound"]
    /\ UNCHANGED <<live, now, GameType, ts_do_team_balance, Config, iamgod>>

\* parse_line, "SurvivorWinner:": LogParser.handle_teams_ts_mode
SurvivorWinner ==
    /\ IF ts_gametype /\ ts_do_team_balance
       THEN /\ Commit(handle_team_balance(Here, TRUE, ts_do_team_balance).W)
            /\ allow_cmd_teams' = FALSE
            /\ ts_do_team_balance' = FALSE
       ELSE Commit(Here) /\ UNCHANGED Balance
    /\ ev' = [type |-> "SurvivorWinner"]
    /\ UNCHANGED <<live, now, GameType, Config, iamgod>>

-----------------------------------------------------------------------------
(* SpecBalance: four players, team changes and balance requests *)

MaxTimeBalance == 1

G3 == <<"G3">>

\* the ClientUserinfo lines of SpecBalance: <<slot, payload>>
ConnectsBalance ==
    {<<0, Userinfo(G0, "Bob")>>, <<1, Userinfo(G1, "Al")>>,
     <<2, Userinfo(G2, "Vic")>>, <<3, Userinfo(G3, "Dan")>>}

\* the ClientUserinfoChanged lines of SpecBalance: <<slot, payload>>
TeamsBalance ==
    {<<0, [t |-> 1, n |-> "Bob"]>>, <<1, [t |-> 1, n |-> "Al"]>>,
     <<2, [t |-> 1, n |-> "Vic"]>>, <<3, [t |-> 1, n |-> "Dan"]>>,
     <<3, [t |-> 2, n |-> "Dan"]>>}

InitBalance ==
    /\ xlrstats = <<>>
    /\ ban_list = <<>>
    /\ ban_points = <<>>
    /\ tk_autokick = TRUE
    /\ num_kick_specs = 0
    /\ max_ping = 0
    /\ urt42_modversion = TRUE
    /\ ffa_lms_gametype = FALSE
    /\ InitBase

NextBalance ==
    \/ GoLive
    \/ Tick(1, MaxTimeBalance)
    \/ \E c \in ConnectsBalance : ClientUserinfo(c[1], c[2], FALSE)
    \/ \E c \in TeamsBalance : ClientUserinfoChanged(c[1], c[2])
    \/ SayTeams(0)

SpecBalance == InitBalance /\ [][NextBalance]_vars

-----------------------------------------------------------------------------
(* Claims on team balance (SpecBalance) *)

Red == TeamOf(Here, 1)
Blue == TeamOf(Here, 2)

\* the larger and the smaller playing team and the difference of their sizes
Larger == IF Cardinality(Red) >= Cardinality(Blue) THEN 1 ELSE 2
Smaller == 3 - Larger
Surplus == Abs(Cardinality(Red) - Cardinality(Blue))

\* the ForceTeam commands of an output and the players they move
Forced(o) == {i \in 1..Len(o) : o[i].cmd = "forceteam"}
Moved(o) == {o[i].num : i \in Forced(o)}

\* S is made of the most recently joined members of the team
MostRecent(S, team) ==
    /\ S \subseteq TeamOf(Here, team)
    /\ \A a \in S, b \in TeamOf(Here, team) \ S :
          players[a].time_joined >= players[b].time_joined

\* the step moves floor(Surplus / 2) players, the most recently joined of the
\* larger team, to the smaller team, which leaves a difference of at most 1
BalancingMoves ==
    /\ Cardinality(Forced(out')) = Surplus \div 2
    /\ Cardinality(Moved(out')) = Surplus \div 2
    /\ MostRecent(Moved(out'), Larger)
    /\ \A i \in Forced(out') : out'[i].text = TeamName(Smaller)
    /\ Abs((Cardinality(TeamOf(Here, Larger)) - Cardinality(Moved(out')))
           - (Cardinality(TeamOf(Here, Smaller)) + Cardinality(Moved(out')))) <= 1

\* C16 as stated: a balance request with red/blue counts differing by more
\* than 1 moves exactly floor(surplus/2) players, the most recently joined of
\* the larger team, to the smaller team; with a difference of at most 1 it
\* moves nobody.
C16_BalanceMoves ==
    [][ev'.type = "!teams" /\ ~ffa_lms_gametype =>
        IF Surplus > 1 THEN BalancingMoves ELSE Forced(out') = {}]_vars

\* C16 amended: the moves are made if the bot is live and immediate balancing
\* is allowed; otherwise, and with a difference of at most 1, the request
\* moves nobody.
C16_BalanceMovesWhenLive ==
    [][ev'.type = "!teams" /\ ~ffa_lms_gametype =>
        IF Surplus > 1 /\ live /\ allow_cmd_teams
        THEN BalancingMoves ELSE Forced(out') = {}]_vars

\* a request has moved two of four red players, among them one who joined
\* later than a player it left
C16_Witness ==
    /\ ev.type = "!teams"
    /\ Cardinality(Red) = 4
    /\ Cardinality(Moved(out)) = 2
    /\ \E a \in Moved(out), b \in Red \ Moved(out) :
          players[a].time_joined > players[b].time_joined

-----------------------------------------------------------------------------
(* SpecTS: Team Survivor rounds and the deferred balance *)

\* g_gametype of the InitGame lines: Team Survivor and Capture the Flag
GameTypesTS == {4, 7}

\* the ClientUserinfo lines of SpecTS: <<slot, payload>>
ConnectsTS ==
    {<<0, Userinfo(G0, "Bob")>>, <<1, Userinfo(G1, "Al")>>,
     <<2, Userinfo(G2, "Vic")>>}

\* the ClientUserinfoChanged lines of SpecTS: <<slot, payload>>
TeamsTS ==
    {<<0, [t |-> 1, n |-> "Bob"]>>, <<1, [t |-> 1, n |-> "Al"]>>,
     <<2, [t |-> 1, n |-> "Vic"]>>, <<2, [t |-> 2, n |-> "Vic"]>>}

NextTS ==
    \/ GoLive
    \/ \E gt \in GameTypesTS : InitGame(gt)
    \/ Warmup
    \/ InitRound
    \/ SurvivorWinner
    \/ \E c \in ConnectsTS : ClientUserinfo(c[1], c[2], FALSE)
    \/ \E c \in TeamsTS : ClientUserinfoChanged(c[1], c[2])
    \/ SayTeams(0)

SpecTS == InitBalance /\ [][NextTS]_vars

-----------------------------------------------------------------------------
(* Claims on the deferred balance (SpecTS) *)

\* a balance request under Team Survivor while immediate balancing is
\* disallowed and the teams differ by more than 1
DeferredRequest ==
    /\ ev'.type = "!teams"
    /\ ts_gametype
    /\ ~ffa_lms_gametype
    /\ ~allow_cmd_teams
    /\ Surplus > 1

\* the request emits no ForceTeam and sets the deferred-balance flag
Deferred ==
    /\ Forced(out') = {}
    /\ ts_do_team_balance'

\* a SurvivorWinner line under Team Survivor with the flag set
RoundEndWithFlag ==
    /\ ev'.type = "SurvivorWinner"
    /\ ts_gametype
    /\ ts_do_team_balance

\* the flag is cleared and immediate balancing is disallowed
FlagCleared ==
    /\ ~ts_do_team_balance'
    /\ ~allow_cmd_teams'

\* once set, the flag stays set until a SurvivorWinner line
FlagKept ==
    ts_do_team_balance /\ ev'.type # "SurvivorWinner" => ts_do_team_balance'

\* C17 as stated: under Team Survivor a request made while immediate
\* balancing is disallowed, with imbalance above 1, emits no ForceTeam and
\* sets the deferred-balance flag; the flag stays set until the next
\* SurvivorWinner line, which balances the teams as they are then, clears
\* the flag and leaves immediate balancing disallowed.
C17_DeferredBalance ==
    [][/\ DeferredRequest => Deferred
       /\ FlagKept
       /\ RoundEndWithFlag =>
             /\ IF Surplus > 1 THEN BalancingMoves ELSE Forced(out') = {}
             /\ FlagCleared]_vars

\* C17 amended: the SurvivorWinner line emits the moves only while the bot
\* is live.
C17_DeferredBalanceWhenLive ==
    [][/\ DeferredRequest => Deferred
       /\ FlagKept
       /\ RoundEndWithFlag =>
             /\ IF Surplus > 1 /\ live
                THEN BalancingMoves ELSE Forced(out') = {}
             /\ FlagCleared]_vars

\* a SurvivorWinner line has just made the moves of a deferred balance
C17_Witness ==
    /\ ev.type = "SurvivorWinner"
    /\ ts_gametype
    /\ Forced(out) # {}
    /\ ~ts_do_team_balance
    /\ ~allow_cmd_teams

-----------------------------------------------------------------------------
(* Hits, flags and the end of a map *)

\* LogParser.hit_points: the hit locations HEAD and HELMET, by mod version
IsHead(hitpoint) ==
    IF urt42_modversion THEN hitpoint \in {0, 1, 2} ELSE hitpoint \in {0, 1}

\* Player.headshot
headshot(p) == [p EXCEPT !.head_shots = @ + 1, !.db_head_shots = @ + 1]

\* handle_hit counting the hit before it looks the victim up
handle_hit_eager(W, hitter_id, victim_id, hitpoint) ==
    IF hitter_id \notin DOMAIN W.players THEN W
    ELSE LET W1 == [W EXCEPT !.players[hitter_id].all_hits = @ + 1] IN
         IF victim_id \notin DOMAIN W.players THEN W1
         ELSE IF IsHead(hitpoint)
         THEN send_rcon([W1 EXCEPT !.players[hitter_id] = headshot(@)],
                        Raw("headshots"))
         ELSE W1

\* LogParser.handle_hit; KeyError on an unknown slot
handle_hit(W, hitter_id, victim_id, hitpoint) ==
    IF hitter_id \notin DOMAIN W.players \/ victim_id \notin DOMAIN W.players
    THEN W
    ELSE LET W1 == [W EXCEPT !.players[hitter_id].all_hits = @ + 1] IN
         IF IsHead(hitpoint)
         THEN send_rcon([W1 EXCEPT !.players[hitter_id] = headshot(@)],
                        Raw("headshots"))
         ELSE W1

\* LogParser.handle_flag; action 1: returned, 2: captured
handle_flag(W, player_num, action) ==
    IF player_num \notin DOMAIN W.players THEN W
    ELSE IF action = 1 THEN [W EXCEPT !.players[player_num].flags_returned = @ + 1]
    ELSE IF action = 2 THEN [W EXCEPT !.players[player_num].flags_captured = @ + 1]
    ELSE W

\* what handle_awards compares in an award category
Score(p, category) ==
    CASE category = "caps" -> p.flags_captured
      [] category = "kills" -> p.kills
      [] category = "streaks" -> p.max_kill_streak
      [] category = "heads" -> p.head_shots

\* the loop of handle_awards, one category: the players in the order of the
\* dict; a later player takes the lead only with more; the World is passed
\* over for the kills and the streaks
RECURSIVE most(_, _, _, _)
most(ps, todo, category, best) ==
    IF todo = {} THEN best
    ELSE LET n == CHOOSE x \in todo : \A y \in todo : x <= y
         IN most(ps, todo \ {n}, category,
                 IF /\ Score(ps[n], category) > best.value
                    /\ (category \in {"kills", "streaks"} => n # World)
                 THEN [value |-> Score(ps[n], category), name |-> ps[n].name]
                 ELSE best)

\* handle_awards, the list msg: an entry for every category whose lead is
\* above 1, in the order caps, kills, streaks, heads
award_msg(ps) ==
    LET lead(category) == most(ps, DOMAIN ps, category, [value |-> 0, name |-> ""])
        entry(category) ==
            IF lead(category).value > 1
            THEN <<[category |-> category, name |-> lead(category).name,
                    value |-> lead(category).value]>>
            ELSE <<>>
    IN entry("caps") \o entry("kills") \o entry("streaks") \o entry("heads")

\* the loop of handle_awards: personal stats and save_info of every player
RECURSIVE AwardsFrom(_, _)
AwardsFrom(W, todo) ==
    IF todo = {} THEN W
    ELSE LET n == CHOOSE x \in todo : \A y \in todo : x <= y
             W1 == IF W.players[n].team # TeamSpec
                   THEN rcon_tell(W, n, "Stats") ELSE W
         IN AwardsFrom(save_info(W1, n), todo \ {n})

\* LogParser.handle_awards
handle_awards(W) ==
    LET W1 == AwardsFrom(W, DOMAIN W.players) IN
    IF award_msg(W.players) # <<>> THEN rcon_say(W1, "AWARDS") ELSE W1

\* parse_line, "Hit:"
Hit(hitter, victim, hitpoint) ==
    /\ Commit(handle_hit(Here, hitter, victim, hitpoint))
    /\ ev' = [type |-> "Hit", hitter |-> hitter, victim |-> victim,
              hitpoint |-> hitpoint]
    /\ UNCHANGED <<live, now, GameType, Balance, Config, iamgod>>

\* parse_line, "Flag:"
Flag(num, action) ==
    /\ Commit(handle_flag(Here, num, action))
    /\ ev' = [type |-> "Flag", num |-> num, action |-> action]
    /\ UNCHANGED <<live, now, GameType, Balance, Config, iamgod>>

\* parse_line, "Exit:"
Exit ==
    /\ Commit(handle_awards(Here))
    /\ allow_cmd_teams' = TRUE
    /\ ev' = [type |-> "Exit", msg |-> award_msg(players)]
    /\ UNCHANGED <<live, now, GameType, ts_do_team_balance, Config, iamgod>>

------------------------------------------------------------------------

-----------------------------------------------------------------------------
(* SpecRound: what a round counts and what Warmup resets *)

MaxActivity == 3
MaxTimeRound == 31

GS == <<"GS">>

\* the ClientUserinfo lines of SpecRound: <<slot, payload>>
ConnectsRound == {<<0, Userinfo(GS, "Sen")>>, <<1, Userinfo(G1, "Al")>>}

\* the ClientUserinfoChanged lines of SpecRound: <<slot, payload>>
TeamsRound == {<<0, [t |-> 1, n |-> "Sen"]>>}

\* the RCON status of SpecRound: slot 1 with a ping above the limit
StatusRound == (1 :> PingLimit + 1)

RoundCounters(p) ==
    <<p.kills, p.deaths, p.killing_streak, p.max_kill_streak, p.head_shots,
      p.all_hits, p.tk_count, p.warn_counter, p.flags_captured,
      p.flags_returned>>

SweepCounters(p) == <<p.spec_warn_count, p.high_ping_count>>

LifetimeCounters(p) ==
    <<p.db_kills, p.db_deaths, p.db_head_shots, p.db_tk_count,
      p.db_team_death, p.db_killing_streak, p.db_suicide>>

\* what a player has done: the kills, team kills, suicides and headshots of
\* a lifetime and the other hits, flags and warnings that are still counted
PlayerActivity(p) ==
    p.db_kills + p.db_tk_count + p.db_suicide + p.db_head_shots
    + (p.all_hits - p.head_shots) + p.flags_captured + p.flags_returned
    + p.warn_counter + p.spec_warn_count + p.high_ping_count

\* the activity of slots 0 and 1
Activity ==
    (IF 0 \in DOMAIN players THEN PlayerActivity(players[0]) ELSE 0)
    + (IF 1 \in DOMAIN players THEN PlayerActivity(players[1]) ELSE 0)

\* a step is taken only if it leaves the activity within the bound
WithinRound == Activity <= MaxActivity

InitRoundSpec ==
    /\ xlrstats = (GS :> XlrRow(80))
    /\ ban_list = <<>>
    /\ ban_points = <<>>
    /\ tk_autokick = TRUE
    /\ num_kick_specs = 1
    /\ max_ping = PingLimit
    /\ urt42_modversion = TRUE
    /\ ffa_lms_gametype = FALSE
    /\ InitBase

\* the lines and tasks of SpecRound that count something
CountingRound ==
    \/ Kill(1, 0, 19, FALSE)
    \/ \E hitpoint \in {0, 3} : Hit(1, 0, hitpoint)
    \/ \E action \in {1, 2} : Flag(1, action)
    \/ SayWarn(0, 2, 1, "obj")
    \/ ProcessWithin(StatusRound, MaxActivity)

NextRound ==
    \/ GoLive
    \/ Tick(SpecGrace + 1, MaxTimeRound)
    \/ Warmup
    \/ \E c \in ConnectsRound : ClientUserinfo(c[1], c[2], FALSE)
    \/ \E c \in TeamsRound : ClientUserinfoChanged(c[1], c[2])
    \/ CountingRound /\ WithinRound'

SpecRound == InitRoundSpec /\ [][NextRound]_vars

-----------------------------------------------------------------------------
(* Claims on the round-scoped counters (SpecRound) *)

-----------------------------------------------------------------------------
(* SpecLife: the lifetime counters over rounds, maps and sessions *)

MaxLife == 2

\* the ClientUserinfo lines of SpecLife: <<slot, payload>>; slot 1 may
\* send another guid while connected
ConnectsLife ==
    {<<0, Userinfo(GS, "Sen")>>, <<1, Userinfo(G1, "Al")>>,
     <<1, Userinfo(G2, "Al")>>}

\* a step is taken only if it leaves the lifetime counters that grow with
\* the Kill and Hit lines of SpecLife within the bound
WithinLife ==
    (IF 0 \in DOMAIN players
     THEN players[0].db_kills + players[0].db_tk_count + players[0].db_head_shots
     ELSE 0)
    + (IF 1 \in DOMAIN players THEN players[1].db_suicide ELSE 0) <= MaxLife

InitLife ==
    /\ xlrstats = (GS :> XlrRow(80))
    /\ ban_list = <<>>
    /\ ban_points = <<>>
    /\ tk_autokick = TRUE
    /\ num_kick_specs = 0
    /\ max_ping = 0
    /\ urt42_modversion = TRUE
    /\ ffa_lms_gametype = FALSE
    /\ InitBase

\* the lines of SpecLife that count something
CountingLife ==
    \/ Kill(0, 1, 19, FALSE)
    \/ Kill(1, 1, 7, FALSE)
    \/ Hit(0, 1, 0)

NextLife ==
    \/ InitGame(7)
    \/ Warmup
    \/ InitRound
    \/ Exit
    \/ \E c \in ConnectsLife : ClientUserinfo(c[1], c[2], FALSE)
    \/ \E c \in TeamsRound : ClientUserinfoChanged(c[1], c[2])
    \/ ClientDisconnect(0)
    \/ SayMaprestart(0)
    \/ SayWarnClear(0, 1, 1)
    \/ CountingLife /\ WithinLife'

SpecLife == InitLife /\ [][NextLife]_vars

-----------------------------------------------------------------------------
(* Claims on the lifetime counters (SpecLife) *)

\* C19: from its creation to its removal, none of a player's lifetime
\* counters (kills, deaths, headshots, team kills, team deaths, max streak,
\* suicides) is decreased by any step.
C19_LifetimeNeverDecreases ==
    [][\A n \in DOMAIN players \cap DOMAIN players' :
          \A i \in 1..7 :
              LifetimeCounters(players'[n])[i] >= LifetimeCounters(players[n])[i]
      ]_vars

\* a map restart has reset the round of a player who keeps the kill of a
\* lifetime, and of a victim who keeps the death
C19_Witness ==
    /\ ev.type = "!maprestart"
    /\ {0, 1} \subseteq DOMAIN players
    /\ players[0].kills = 0
    /\ players[0].db_kills > 0
    /\ players[1].deaths = 0
    /\ players[1].db_deaths > 0

-----------------------------------------------------------------------------
(* SpecRecover: start-up recovery of the game type, find_game_start          *)

\* a line of the log: its length in bytes with the newline and what it says.
\* gt is the g_gametype of an "InitGame:" line, -1 on any other line; mod41
\* says the line carries g_modversion\4.1
LogLine(len, gt, mod41) == [len |-> len, gt |-> gt, mod41 |-> mod41]

seek_amount == 768

RECURSIVE Size(_)
\* the length of the file in bytes: where seek(0, 2) leaves the file
Size(log) == IF log = <<>> THEN 0 ELSE Head(log).len + Size(Tail(log))

\* the byte at which line i begins
StartOf(log, i) == Size(SubSeq(log, 1, i - 1))

\* log_file.readline() at byte pos: the line read, whether it was read from
\* its first byte (a timestamp and "InitGame:" are at the head of a line, so
\* a line entered in the middle matches nothing), and tell() afterwards
readline(log, pos) ==
    IF pos >= Size(log)
    THEN [empty |-> TRUE, whole |-> FALSE, line |-> 0, tell |-> Size(log)]
    ELSE LET i == CHOOSE j \in 1..Len(log) :
                      StartOf(log, j) <= pos /\ pos < StartOf(log, j) + log[j].len
         IN  [empty |-> FALSE, whole |-> (pos = StartOf(log, i)), line |-> i,
              tell |-> StartOf(log, i) + log[i].len]

\* the attributes find_game_start writes, as LogParser.__init__ leaves them
Unrecovered ==
    [game_start |-> FALSE, urt42_modversion |-> TRUE, ffa_lms_gametype |-> FALSE,
     ctf_gametype |-> FALSE, ts_gametype |-> FALSE]

\* find_game_start, the body run on one line read: flags are only ever set
see_line(R, l) ==
    IF l.gt = -1 THEN R
    ELSE [game_start |-> TRUE,
          urt42_modversion |-> IF l.mod41 THEN FALSE ELSE R.urt42_modversion,
          ffa_lms_gametype |-> IF l.gt \in {0, 1, 9} THEN TRUE
                               ELSE R.ffa_lms_gametype,
          ctf_gametype |-> IF l.gt \notin {0, 1, 9} /\ l.gt = 7 THEN TRUE
                           ELSE R.ctf_gametype,
          ts_gametype |-> IF l.gt \notin {0, 1, 9, 7} /\ l.gt = 4 THEN TRUE
                          ELSE R.ts_gametype]

RECURSIVE scan_window(_, _, _, _)
\* find_game_start, the inner loop: read lines from pos until one ends past
\* end_pos or the file ends
scan_window(log, pos, end_pos, R) ==
    LET rd == readline(log, pos)
        R2 == IF rd.whole THEN see_line(R, log[rd.line]) ELSE R
    IN  IF rd.tell > end_pos \/ rd.empty
        THEN [R |-> R2, tell |-> rd.tell]
        ELSE scan_window(log, rd.tell, end_pos, R2)

\* more windows than a file of this size has: a search that uses them all
\* is going round in the same window for ever
Rounds(log) == Size(log) \div seek_amount + 3

RECURSIVE search(_, _, _, _, _, _)
\* find_game_start, the outer loop: one window, then the window before it
search(log, start_pos, end_pos, pos, R, rounds) ==
    IF R.game_start THEN [status |-> "found", R |-> R]
    ELSE IF rounds = 0 THEN [status |-> "hang", R |-> R]
    ELSE LET w == scan_window(log, pos, end_pos, R)
             cur_pos == start_pos - seek_amount
             back == IF cur_pos < 0 THEN 0 ELSE cur_pos
         IN  IF w.tell < seek_amount
             THEN search(log, start_pos, end_pos, 0, w.R, rounds - 1)
             ELSE search(log, back, start_pos, back, w.R, rounds - 1)

\* LogParser.find_game_start on a file left at its end by __init__; a seek to
\* a negative offset raises IOError
find_game_start(log) ==
    LET start_pos == Size(log) - seek_amount
    IN  IF start_pos < 0 THEN [status |-> "crash", R |-> Unrecovered]
        ELSE search(log, start_pos, start_pos + seek_amount, start_pos,
                    Unrecovered, Rounds(log))

\* read_log, its first statement; a search that never ends takes no step,
\* an IOError ends the program
FindGameStart ==
    /\ ev.type = "start"
    /\ LET r == find_game_start(log_file)
       IN  /\ r.status # "hang"
           /\ ffa_lms_gametype' = r.R.ffa_lms_gametype
           /\ ctf_gametype' = r.R.ctf_gametype
           /\ ts_gametype' = r.R.ts_gametype
           /\ urt42_modversion' = r.R.urt42_modversion
           /\ ev' = [type |-> "find_game_start", status |-> r.status]
    /\ out' = <<>>
    /\ UNCHANGED <<players, live, now, ban_list, ban_points, xlrstats, Balance,
                   tk_autokick, num_kick_specs, max_ping, log_file, tail,
                   loop, players_lock, iamgod>>

RECURSIVE forward_scan(_, _)
\* parse_line, "InitGame:", over every line of the file from its start
forward_scan(log, flags) ==
    IF log = <<>> THEN flags
    ELSE forward_scan(Tail(log),
             IF Head(log).gt = -1 THEN flags
             ELSE <<Head(log).gt \in {0, 1, 9}, Head(log).gt = 7,
                    Head(log).gt = 4>>)

MaxLogLines == 3

\* line lengths that put line ends before, on and after the window edges
LineLens == {200, 568, 900}

LinesLog ==
    {LogLine(len, gt, FALSE) : len \in LineLens, gt \in {-1, 0, 4, 7}}
        \cup {LogLine(len, 3, TRUE) : len \in LineLens}

Logs == UNION {[1..n -> LinesLog] : n \in 0..MaxLogLines}

InitRecover ==
    /\ log_file \in Logs
    /\ ban_list = <<>>
    /\ ban_points = <<>>
    /\ xlrstats = <<>>
    /\ ffa_lms_gametype = FALSE
    /\ tk_autokick = TRUE
    /\ num_kick_specs = 1
    /\ max_ping = PingLimit
    /\ urt42_modversion = TRUE
    /\ tail = [written |-> <<>>, tell |-> 0]
    /\ InitState

\* after recovery read_log handles the lines the server writes from then on
Recovered == ev.type # "start" /\ ~(ev.type = "find_game_start" /\ ev.status = "crash")

NextRecover ==
    \/ FindGameStart
    \/ Recovered /\ GoLive
    \/ \E gt \in {0, 7} : Recovered /\ InitGame(gt)

SpecRecover == InitRecover /\ [][NextRecover]_vars

HasInitGame(log) == \E i \in 1..Len(log) : log[i].gt # -1

\* C20: for a log with at least one InitGame line, the game-type flags after
\* start-up recovery are those a forward scan of the file gives, the ones of
\* the most recent InitGame line alone
C20_RecoveryIsForwardScan ==
    [][ev.type = "start" /\ HasInitGame(log_file)
         => /\ ev'.type = "find_game_start"
            /\ ev'.status = "found"
            /\ <<ffa_lms_gametype', ctf_gametype', ts_gametype'>>
                 = forward_scan(log_file, <<FALSE, FALSE, FALSE>>)]_vars

-----------------------------------------------------------------------------
(* FairRecover: read_log runs find_game_start as soon as the bot starts      *)

FairRecover == SpecRecover /\ WF_vars(FindGameStart)

\* C21: start-up recovery ends for every log file, also for a file shorter
\* than the 768-byte window and for a file without an InitGame line, and
\* read_log goes on to tail the file
C21_RecoveryTerminates == <>Recovered

-----------------------------------------------------------------------------
(* SpecTail: the tail loop of read_log on a file the server is appending to  *)

\* what one write of the server adds to the file: a whole "InitGame:" line
\* with its newline, or such a line in two writes: a head with the timestamp,
\* "InitGame:" and the first settings, and a rest with g_gametype\gt and the
\* newline
Chunk(part, gt) == [part |-> part, gt |-> gt]

Terminated(chunk) == chunk.part \in {"whole", "rest"}

\* log_file.readline() in the tail loop: everything up to and with the next
\* newline, or up to the end of the file if no newline is there yet
read_tail(written, tell) ==
    LET ends == {j \in (tell + 1)..Len(written) : Terminated(written[j])}
        stop == IF ends = {} THEN Len(written)
                ELSE CHOOSE j \in ends : \A k \in ends : j <= k
    IN  [string |-> SubSeq(written, tell + 1, stop), tell |-> stop]

\* the g_gametype codes that are in the text
Codes(string) == {string[j].gt : j \in {k \in 1..Len(string) : Terminated(string[k])}}

\* the server writes to the log
ServerWrites(chunk) ==
    /\ IF tail.written # <<>> /\ tail.written[Len(tail.written)].part = "head"
       THEN chunk = Chunk("rest", tail.written[Len(tail.written)].gt)
       ELSE chunk.part # "rest"
    /\ tail' = [tail EXCEPT !.written = Append(@, chunk)]
    /\ out' = <<>>
    /\ ev' = [type |-> "append"]
    /\ UNCHANGED <<players, live, now, ban_list, ban_points, xlrstats, GameType,
                   Balance, tk_autokick, num_kick_specs, max_ping,
                   urt42_modversion, log_file, loop, players_lock,
                   iamgod>>

\* read_log, a turn of the loop that reads something: parse_line on it. A
\* text that begins with the timestamp and "InitGame:" sets the flags from
\* the codes in it; a text without them has no ":" after its seventh
\* character, or no known category before it
TailLine ==
    /\ tail.tell < Len(tail.written)
    /\ LET rd == read_tail(tail.written, tail.tell)
       IN  /\ tail' = [tail EXCEPT !.tell = rd.tell]
           /\ ev' = [type |-> "parse_line", string |-> rd.string]
           /\ IF rd.string[1].part \in {"whole", "head"}
              THEN /\ ffa_lms_gametype' = (Codes(rd.string) \cap {0, 1, 9} # {})
                   /\ ctf_gametype' = (7 \in Codes(rd.string))
                   /\ ts_gametype' = (4 \in Codes(rd.string))
              ELSE UNCHANGED GameType
    /\ out' = <<>>
    /\ UNCHANGED <<players, live, now, ban_list, ban_points, xlrstats,
                   Balance, tk_autokick, num_kick_specs, max_ping,
                   urt42_modversion, log_file, loop, players_lock,
                   iamgod>>

\* read_log, a turn of the loop that reads nothing
TailIdle == tail.tell = Len(tail.written) /\ GoLive

MaxTail == 5

ChunksTail == {Chunk(part, gt) : part \in {"whole", "head", "rest"}, gt \in {0, 4, 7}}

InitTail ==
    /\ ban_list = <<>>
    /\ ban_points = <<>>
    /\ xlrstats = <<>>
    /\ ffa_lms_gametype = FALSE
    /\ tk_autokick = TRUE
    /\ num_kick_specs = 1
    /\ max_ping = PingLimit
    /\ urt42_modversion = TRUE
    /\ InitBase

NextTail ==
    \/ \E chunk \in ChunksTail : Len(tail.written) < MaxTail /\ ServerWrites(chunk)
    \/ TailLine
    \/ TailIdle

SpecTail == InitTail /\ [][NextTail]_vars

\* C22: the tail loop hands parse_line only whole lines with their newline:
\* a line that is still being written is not handed over
C22_OnlyWholeLines ==
    [][ev'.type = "parse_line"
         => ev'.string \in {<<Chunk("whole", gt)>> : gt \in {0, 4, 7}}
                \cup {<<Chunk("head", gt), Chunk("rest", gt)>> : gt \in {0, 4, 7}}]_vars

-----------------------------------------------------------------------------
(* SpecDrop: lines that parse_line drops *)

\* LogParser.handle_begin; KeyError on an unknown slot
handle_begin(W, player_num) ==
    IF player_num \notin DOMAIN W.players THEN W
    ELSE IF W.players[player_num].registered_user
            /\ W.players[player_num].welcome_msg
    THEN [rcon_tell(W, player_num, "Welcome back")
             EXCEPT !.players[player_num].welcome_msg = FALSE]
    ELSE W

\* parse_line, "ClientBegin:"
ClientBegin(num) ==
    /\ Commit(handle_begin(Here, num))
    /\ ev' = [type |-> "ClientBegin", num |-> num]
    /\ UNCHANGED <<live, now, GameType, Balance, Config, iamgod>>

\* parse_line on a line of a category it has no branch for ("Item:",
\* "ClientConnect:", ...), and on a line without ":" after its seventh
\* character (IndexError at tmp[1])
OtherLine(kind) ==
    /\ out' = <<>>
    /\ ev' = [type |-> kind]
    /\ UNCHANGED <<players, live, now, ban_list, ban_points, xlrstats, GameType,
                   Balance, Config, iamgod>>

MaxDrop == 1

\* the ClientUserinfoChanged lines of SpecDrop: <<slot, payload>>
TeamsDrop == {<<0, [t |-> 1, n |-> "Sen"]>>, <<1, [t |-> 3, n |-> "Al"]>>}

\* what the Kill, Hit and Flag lines of SpecDrop make grow
CountedDrop(p) ==
    p.db_kills + p.db_deaths + p.db_tk_count + p.db_team_death + p.db_suicide
    + p.db_head_shots + p.all_hits + p.flags_captured + p.flags_returned

WithinDrop ==
    \A n \in {0, 1} : n \in DOMAIN players => CountedDrop(players[n]) <= MaxDrop

CountingDrop ==
    \/ \E k \in {0, 1} : Kill(k, 1 - k, 19, FALSE)
    \/ \E h \in {0, 1} : Hit(h, 1 - h, 0)
    \/ \E n \in {0, 1} : Flag(n, 2)

NextDrop ==
    \/ GoLive
    \/ \E c \in ConnectsRound : ClientUserinfo(c[1], c[2], FALSE)
    \/ \E c \in TeamsDrop : ClientUserinfoChanged(c[1], c[2])
    \/ \E n \in {0, 1} : ClientBegin(n)
    \/ \E n \in {0, 1} : ClientDisconnect(n)
    \/ \E kind \in {"unknown", "unsplit"} : OtherLine(kind)
    \/ CountingDrop /\ WithinDrop'

SpecDrop == InitRoundSpec /\ [][NextDrop]_vars

\* the slots a line names
SlotsOf(e) ==
    IF e.type = "Kill" THEN (IF e.non_client THEN {} ELSE {e.killer}) \cup {e.victim}
    ELSE IF e.type = "Hit" THEN {e.hitter, e.victim}
    ELSE IF e.type \in {"Flag", "ClientBegin", "ClientUserinfoChanged",
                        "ClientDisconnect"} THEN {e.num}
    ELSE {}

\* a line of no known category, a line that does not split, or an event
\* on a slot without a Player
Dropped(e) ==
    \/ e.type \in {"unknown", "unsplit"}
    \/ SlotsOf(e) \ DOMAIN players # {}

-----------------------------------------------------------------------------
(* SpecLeave: a player leaves and the slot is used again *)

MaxLeave == 1

WithinLeave ==
    \A n \in {0, 1} : n \in DOMAIN players
        => CountedDrop(players[n]) + players[n].warn_counter <= MaxLeave

CountingLeave ==
    \/ \E k \in {0, 1} : Kill(k, 1 - k, 19, FALSE)
    \/ SayWarn(0, 2, 1, "obj")

NextLeave ==
    \/ GoLive
    \/ \E c \in ConnectsRound : ClientUserinfo(c[1], c[2], FALSE)
    \/ \E c \in TeamsDrop : ClientUserinfoChanged(c[1], c[2])
    \/ \E n \in {0, 1} : ClientDisconnect(n)
    \/ CountingLeave /\ WithinLeave'

SpecLeave == InitRoundSpec /\ [][NextLeave]_vars

\* the stats of a player as save_info writes them to the xlrstats row
SavedStats(row) ==
    <<row.kills, row.deaths, row.headshots, row.team_kills, row.team_death,
      row.max_kill_streak, row.suicides>>

-----------------------------------------------------------------------------
(* SpecAward: the awards at the end of a map *)

MaxAward == 3

\* the slots that score in SpecAward
SlotsAward == {1, World}

\* what the lines of SpecAward make grow, over all players
CountedAward(p) ==
    p.db_kills + p.db_deaths + p.db_tk_count + p.db_team_death + p.all_hits
    + p.flags_captured

WithinAward ==
    CountedAward(players[World])
    + (IF 0 \in DOMAIN players THEN CountedAward(players[0]) ELSE 0)
    + (IF 1 \in DOMAIN players THEN CountedAward(players[1]) ELSE 0) <= MaxAward

CountingAward ==
    \/ Kill(1, 0, 19, FALSE)
    \/ Kill(World, 0, 25, TRUE)
    \/ \E n \in SlotsAward : Hit(n, 0, 0)
    \/ \E n \in SlotsAward : Flag(n, 2)

NextAward ==
    \/ GoLive
    \/ \E c \in ConnectsRound : ClientUserinfo(c[1], c[2], FALSE)
    \/ \E c \in TeamsRound : ClientUserinfoChanged(c[1], c[2])
    \/ Exit
    \/ CountingAward /\ WithinAward'

SpecAward == InitRoundSpec /\ [][NextAward]_vars

\* the AWARDS line was sent
Announced(o) == \E i \in 1..Len(o) : o[i] = Say("AWARDS")

\* C25: an award is announced at Exit only for a category whose maximum is
\* above 1, its winner holds that maximum among the connected players, and
\* the World is not named in any category
C25_AwardsToBestNeverWorld ==
    [][ev'.type = "Exit" /\ Announced(out')
         => \A i \in 1..Len(ev'.msg) :
              /\ ev'.msg[i].value > 1
              /\ ev'.msg[i].name # WorldPlayer.name
              /\ \E n \in DOMAIN players \ {World} :
                    /\ players[n].name = ev'.msg[i].name
                    /\ Score(players[n], ev'.msg[i].category) = ev'.msg[i].value
              /\ \A n \in DOMAIN players \ {World} :
                    Score(players[n], ev'.msg[i].category) <= ev'.msg[i].value]_vars

-----------------------------------------------------------------------------
(* InitGame and the balancing state, under SpecTS *)

\* C26: after an InitGame line the deferred-balance flag is off and immediate
\* balancing is allowed, whatever game types and lines came before, so that
\* no request of the match before is carried out or dropped in the new match
C26_InitGameResetsBalancing ==
    [][ev'.type = "InitGame" => allow_cmd_teams' /\ ~ts_do_team_balance']_vars

-----------------------------------------------------------------------------
(* SpecType: what changes the game-type flags *)

MaxType == 1

\* the logs SpecType starts on: two InitGame lines in one window, and one
LogsType ==
    {<<LogLine(200, 0, FALSE), LogLine(568, 7, FALSE)>>,
     <<LogLine(900, 4, FALSE)>>}

\* the g_gametype codes of the InitGame lines of SpecType
GameTypesType == {0, 3, 4, 7, 10}

\* the ClientUserinfo lines of SpecType: <<slot, payload>>
ConnectsType == {<<0, Userinfo(GS, "Sen")>>}

WithinType ==
    0 \in DOMAIN players
        => CountedDrop(players[0]) + players[0].warn_counter
           + players[0].spec_warn_count + players[0].high_ping_count <= MaxType

InitType ==
    /\ log_file \in LogsType
    /\ ban_list = <<>>
    /\ ban_points = <<>>
    /\ xlrstats = (GS :> XlrRow(80))
    /\ ffa_lms_gametype = FALSE
    /\ tk_autokick = TRUE
    /\ num_kick_specs = 0
    /\ max_ping = PingLimit
    /\ urt42_modversion = TRUE
    /\ tail = [written |-> <<>>, tell |-> 0]
    /\ InitState

\* the lines, commands and tasks of SpecType other than InitGame
OtherType ==
    \/ GoLive
    \/ Warmup
    \/ InitRound
    \/ SurvivorWinner
    \/ Exit
    \/ \E c \in ConnectsType : ClientUserinfo(c[1], c[2], FALSE)
    \/ \E c \in TeamsRound : ClientUserinfoChanged(c[1], c[2])
    \/ ClientBegin(0)
    \/ ClientDisconnect(0)
    \/ Kill(0, 0, 7, FALSE)
    \/ Hit(0, 0, 0)
    \/ Flag(0, 2)
    \/ SayTeams(0)
    \/ SayMaprestart(0)
    \/ SayWarn(0, 2, 0, "obj")
    \/ ProcessWithin(<<>>, MaxType)
    \/ OtherLine("unknown")

NextType ==
    \/ FindGameStart
    \/ \E gt \in GameTypesType : Recovered /\ InitGame(gt)
    \/ Recovered /\ OtherType /\ WithinType'

SpecType == InitType /\ [][NextType]_vars

\* how many of the three flags are set
FlagsSet(flags) == Cardinality({i \in 1..3 : flags[i]})

\* C27: the game-type flags change only with an InitGame line or in start-up
\* recovery, and after an InitGame line at most one of them is set
C27_FlagsChangeAtInitGameOnly ==
    [][/\ GameType' # GameType => ev'.type \in {"InitGame", "find_game_start"}
       /\ ev'.type = "InitGame" => FlagsSet(GameType') <= 1]_vars

\* an InitGame line with code 10 has set the FFA/LMS/Jump flag alone on a
\* bot that recovered two flags at start-up
C27_Witness ==
    /\ ev.type = "InitGame"
    /\ ev.gt = 10
    /\ GameType = <<TRUE, FALSE, FALSE>>
    /\ FlagsSet(forward_scan(log_file, <<FALSE, FALSE, FALSE>>)) = 1
    /\ find_game_start(log_file).R.ffa_lms_gametype
    /\ find_game_start(log_file).R.ctf_gametype

-----------------------------------------------------------------------------
(* Streaks and deaths, under SpecKill *)

\* C28: every Kill line in which a player is the victim, a kill by a team
\* mate included, sets the victim's current streak to zero and counts one
\* death
C28_VictimDiesOnEveryKill ==
    [][ev'.type = "Kill" /\ ~Dropped(ev')
         => /\ players'[ev'.victim].killing_streak = 0
            /\ players'[ev'.victim].deaths = players[ev'.victim].deaths + 1]_vars

-----------------------------------------------------------------------------
(* SpecFail: a database error while a line is handled *)

\* handle_disconnect with the del before save_info, and the UPDATE failing
handle_disconnect_db_error_late(W, player_num) ==
    [W EXCEPT !.players =
        [n \in DOMAIN W.players \ {player_num} |-> W.players[n]]]

\* handle_disconnect when the UPDATE of save_info raises sqlite3.Error:
\* nothing is written, and reset and del are not reached
handle_disconnect_db_error(W, player_num) == W

\* parse_line, "ClientDisconnect:" of a registered player with the database
\* failing: the exception is caught and printed by parse_line
ClientDisconnectDbError(num) ==
    /\ num \in DOMAIN players
    /\ players[num].registered_user
    /\ Commit(handle_disconnect_db_error(Here, num))
    /\ ev' = [type |-> "db_error", line |-> "ClientDisconnect", num |-> num]
    /\ UNCHANGED <<live, now, GameType, Balance, Config, iamgod>>

NextFail ==
    \/ GoLive
    \/ \E c \in ConnectsRound : ClientUserinfo(c[1], c[2], FALSE)
    \/ \E c \in TeamsDrop : ClientUserinfoChanged(c[1], c[2])
    \/ \E n \in {0, 1} : ClientDisconnect(n)
    \/ ClientDisconnectDbError(0)
    \/ ProcessWithin(<<>>, MaxLeave)
    \/ CountingLeave /\ WithinLeave'

SpecFail == InitRoundSpec /\ [][NextFail]_vars

\* C29 as stated: a database error raised while a line is handled is fatal,
\* the loop of read_log handles nothing after it
C29_DbErrorStopsLoop == [][ev.type # "db_error"]_vars

\* C29: a database error raised while a line is handled is caught by
\* parse_line: the line changes nothing and emits nothing, the player whose
\* stats could not be saved stays in the registry, and read_log goes on;
\* the scheduled sweep writes nothing to the database
C29_DbErrorIsCaught ==
    [][/\ ev'.type = "db_error"
            => /\ UNCHANGED <<players, live, ban_list, ban_points, xlrstats,
                              GameType, Balance, iamgod>>
               /\ out' = <<>>
               /\ ev'.num \in DOMAIN players'
       /\ ev'.type = "process"
            => UNCHANGED <<ban_list, ban_points, xlrstats>>]_vars

\* the disconnect of the registered player failed after a kill was counted
C29_Witness ==
    /\ ev.type = "db_error"
    /\ players[ev.num].db_kills > 0
    /\ xlrstats[players[ev.num].guid].kills = 0

-----------------------------------------------------------------------------
\* The loop of LogParser.read_log: one thread polls the scheduler, reads a
\* line and hands it to parse_line.  loop.pc is the statement the thread is
\* at, loop.due the jobs whose time has come, loop.todo the due jobs
\* run_pending still has to run, loop.running what is executing (a job or
\* "parse_line"), loop.ran the jobs run in this iteration and loop.polls the
\* calls of run_pending in this iteration.

\* the two jobs read_log schedules: tasks.process and self.send_heartbeat
Jobs == {"process", "send_heartbeat"}

\* a step of the loop itself: it moves the thread and touches nothing else
LoopStep(next, event) ==
    /\ loop' = next
    /\ ev' = event
    /\ out' = <<>>
    /\ UNCHANGED <<players, live, now, ban_list, ban_points, xlrstats, GameType,
                   Balance, tk_autokick, num_kick_specs, max_ping,
                   urt42_modversion, log_file, tail, players_lock,
                   iamgod>>

\* the clock reaches the next run time of a job; the thread may be anywhere
JobDue(job) ==
    /\ job \notin loop.due
    /\ loop' = [loop EXCEPT !.due = @ \cup {job}]
    /\ UNCHANGED <<players, live, now, ban_list, ban_points, xlrstats, GameType,
                   Balance, tk_autokick, num_kick_specs, max_ping,
                   urt42_modversion, log_file, tail, players_lock, iamgod,
                   out, ev>>

\* schedule.run_pending(), called at the top of every iteration: it takes the
\* jobs that are due
RunPending ==
    /\ loop.pc = "run_pending"
    /\ LoopStep([loop EXCEPT !.pc = "jobs", !.todo = loop.due, !.due = {},
                             !.polls = @ + 1],
                [type |-> "run_pending"])

\* run_pending calls the next due job on the calling thread, after the one
\* before it has returned
StartJob(job) ==
    /\ loop.pc = "jobs"
    /\ job \in loop.todo
    /\ loop.running = {}
    /\ LoopStep([loop EXCEPT !.todo = @ \ {job}, !.running = {job}],
                [type |-> "job", job |-> job])

\* the body of the job tasks.process: TaskManager.process
ProcessJob(cap) ==
    /\ loop.running = {"process"}
    /\ ev.type = "job"
    /\ ProcessWithin(<<>>, cap)

\* the job returns to run_pending; send_heartbeat changes nothing here
EndJob(job) ==
    /\ loop.running = {job}
    /\ ev.type = (IF job = "process" THEN "process" ELSE "job")
    /\ LoopStep([loop EXCEPT !.running = {}, !.ran = @ \cup {job}],
                [type |-> "job_done", job |-> job])

\* as ReadLine, had run_pending handed its jobs to another thread and
\* returned at once
ReadLine_early ==
    /\ loop.pc = "jobs"
    /\ loop.todo = {}
    /\ "parse_line" \notin loop.running
    /\ LoopStep([loop EXCEPT !.pc = "parse_line",
                             !.running = @ \cup {"parse_line"}],
                [type |-> "readline"])

\* run_pending has returned, readline() gives a line and parse_line is
\* called with it
ReadLine ==
    /\ loop.pc = "jobs"
    /\ loop.todo = {}
    /\ loop.running = {}
    /\ LoopStep([loop EXCEPT !.pc = "parse_line", !.running = {"parse_line"}],
                [type |-> "readline"])

\* the thread is in parse_line and the handler has not acted yet
InParseLine ==
    /\ loop.pc = "parse_line"
    /\ ev.type = "readline"

\* parse_line returns and the next iteration begins
EndLine ==
    /\ loop.pc = "parse_line"
    /\ ev.type # "readline"
    /\ LoopStep([loop EXCEPT !.pc = "run_pending", !.running = {}, !.ran = {},
                             !.polls = 0],
                [type |-> "line_done"])

\* run_pending has returned and readline() gives nothing: the else branch
ReadNothing ==
    /\ loop.pc = "jobs"
    /\ loop.todo = {}
    /\ loop.running = {}
    /\ LoopStep([loop EXCEPT !.pc = "sleep"], [type |-> "no_line"])

\* if not self.game.live: self.game.go_live()
LoopGoLive ==
    /\ loop.pc = "sleep"
    /\ ev.type = "no_line"
    /\ GoLive

\* time passes while the thread sleeps
SleepTick ==
    /\ loop.pc = "sleep"
    /\ live
    /\ Tick(SpecGrace, MaxTimeSpec)

\* time.sleep(.125), and the next iteration begins
Sleep ==
    /\ loop.pc = "sleep"
    /\ live
    /\ LoopStep([loop EXCEPT !.pc = "run_pending", !.ran = {}, !.polls = 0],
                [type |-> "sleep"])

MaxLoop == 2

NextLoop ==
    \/ \E job \in Jobs : JobDue(job)
    \/ RunPending
    \/ \E job \in Jobs : StartJob(job)
    \/ ProcessJob(MaxLoop)
    \/ \E job \in Jobs : EndJob(job)
    \/ ReadLine
    \/ \E c \in ConnectsRound : InParseLine /\ ClientUserinfo(c[1], c[2], FALSE)
    \/ \E c \in TeamsDrop : InParseLine /\ ClientUserinfoChanged(c[1], c[2])
    \/ \E n \in {0, 1} : InParseLine /\ ClientDisconnect(n)
    \/ InParseLine /\ OtherLine("unknown")
    \/ EndLine
    \/ ReadNothing
    \/ LoopGoLive
    \/ SleepTick
    \/ Sleep

SpecLoop == InitRoundSpec /\ [][NextLoop]_vars

\* C30: at most one of the scheduled jobs and parse_line is executing at any
\* time; while parse_line handles a line, nothing else runs and run_pending
\* has been called exactly once in the iteration, and never more than once
C30_StrictlyInterleaved ==
    /\ Cardinality(loop.running) <= 1
    /\ loop.polls <= 1
    /\ loop.pc = "parse_line" => loop.running = {"parse_line"} /\ loop.polls = 1
    /\ loop.running # {} /\ loop.running # {"parse_line"} => loop.pc = "jobs"

\* both jobs ran in one poll, the sweep warned a spectator, and the handler
\* of the line read after them has acted
C30_Witness ==
    /\ loop.pc = "parse_line"
    /\ loop.ran = Jobs
    /\ ev.type \notin {"readline", "unknown"}
    /\ \E n \in DOMAIN players : players[n].spec_warn_count > 0

-----------------------------------------------------------------------------
(* SpecLock: players_lock around the handlers of parse_line and the sweep    *)

\* a step that only takes or gives back the lock
LockStep(next, event) ==
    /\ players_lock' = next
    /\ ev' = event
    /\ out' = <<>>
    /\ UNCHANGED <<players, live, now, ban_list, ban_points, xlrstats, GameType,
                   Balance, tk_autokick, num_kick_specs, max_ping,
                   urt42_modversion, log_file, tail, loop, iamgod>>

\* the lines (and the job) of SpecLock whose handler begins with
\* "with players_lock:"; InitRound takes it only under Capture the Flag
LinesLock ==
    {"Warmup", "ClientUserinfo", "ClientUserinfoChanged", "say", "process"}
    \cup (IF ctf_gametype THEN {"InitRound"} ELSE {})

\* "with players_lock:" entered by a handler that does not hold the lock
Enter(line) ==
    /\ players_lock.count = 0
    /\ LockStep([count |-> 1, at |-> line], [type |-> "with", line |-> line])

\* "with players_lock:" entered again by the thread that holds it: in
\* Game.add_player under handle_userinfo, in Game.balance_teams under handle_say
EnterAgain ==
    /\ players_lock.count = 1
    /\ players_lock.at \in {"ClientUserinfo", "say"}
    /\ ev.type = "with"
    /\ LockStep([players_lock EXCEPT !.count = 2], ev)

\* the end of a "with players_lock:" block, after the handler has acted
Leave ==
    /\ players_lock.count > 0
    /\ ev.type # "with"
    /\ LockStep([count |-> players_lock.count - 1,
                 at |-> IF players_lock.count = 1 THEN "none"
                        ELSE players_lock.at],
                [type |-> "leave"])

\* the thread is inside the "with players_lock:" block of the handler of line
Held(line) ==
    /\ players_lock.at = line
    /\ ev.type = "with"

\* the thread is in parse_line outside every "with players_lock:" block
NotHeld == players_lock.count = 0

NextLock ==
    \/ NotHeld /\ GoLive
    \/ \E line \in LinesLock : Enter(line)
    \/ EnterAgain
    \/ Leave
    \/ \E gt \in GameTypesTS : NotHeld /\ InitGame(gt)
    \/ (IF ctf_gametype THEN Held("InitRound") ELSE NotHeld) /\ InitRound
    \/ NotHeld /\ SurvivorWinner
    \/ Held("Warmup") /\ Warmup
    \/ \E c \in ConnectsTS : Held("ClientUserinfo") /\ ClientUserinfo(c[1], c[2], FALSE)
    \/ \E c \in TeamsTS :
          Held("ClientUserinfoChanged") /\ ClientUserinfoChanged(c[1], c[2])
    \/ Held("say") /\ SayTeams(0)
    \/ Held("process") /\ ProcessWithin(<<>>, MaxSpecWarn)

SpecLock == InitBalance /\ [][NextLock]_vars

\* C31: every step of a handler or of the sweep that reads or writes the
\* players, the registry or the match state is taken while the thread holds
\* players_lock
C31_AccessUnderLock ==
    [][ev'.type \notin {"with", "leave", "go_live"} => players_lock.count > 0]_vars

-----------------------------------------------------------------------------
(* SpecGuid: identity lines that change the guid of an occupied slot         *)

\* the ClientUserinfo lines of SpecGuid: <<slot, payload>>; GM is a
\* registered Moderator, G0 is banned, G1 is unknown to the database
ConnectsGuid ==
    {<<n, Userinfo(g[1], g[2])>> :
        n \in {0, 1}, g \in {<<GM, "Mod">>, <<G0, "Bob">>, <<G1, "Al">>}}

InitGuid ==
    /\ xlrstats = (GM :> XlrRow(ModeratorRole))
    /\ ban_list = <<OldBan>>
    /\ ban_points = <<>>
    /\ tk_autokick = TRUE
    /\ num_kick_specs = 0
    /\ max_ping = 0
    /\ urt42_modversion = TRUE
    /\ ffa_lms_gametype = FALSE
    /\ InitBase

NextGuid ==
    \/ GoLive
    \/ Tick(WarnOtherDuration, MaxTimeIdent)
    \/ \E c \in ConnectsGuid : ClientUserinfo(c[1], c[2], FALSE)
    \/ \E n \in {0, 1} : ClientDisconnect(n)

SpecGuid == InitGuid /\ [][NextGuid]_vars

\* the ban_list rows of a guid or an address that have not expired
BansNow(guid, address) ==
    {i \in 1..Len(ban_list) :
        /\ (ban_list[i].guid = guid \/ ban_list[i].ip_address = address)
        /\ ban_list[i].expires > now}

\* C32: after an identity line the player of the slot has the role and the
\* registered flag that xlrstats holds for the guid of the line, is flagged
\* as banned exactly if the guid or the address has an active ban and, if so
\* and the bot is live, is kicked
C32_IdentityFromStorage ==
    [][ev'.type = "ClientUserinfo" /\ ev'.num \in DOMAIN players'
        => LET p == players'[ev'.num]
               guid == ev'.values.cl_guid
           IN  /\ p.guid = guid
               /\ p.registered_user = (guid \in DOMAIN xlrstats')
               /\ p.admin_role = (IF guid \in DOMAIN xlrstats'
                                  THEN xlrstats'[guid].admin_role ELSE 0)
               /\ p.banned_player = (BansNow(guid, ev'.values.ip.address) # {})
               /\ p.banned_player /\ live => Kicks(out', ev'.num) # {}]_vars

-----------------------------------------------------------------------------
(* Claims on the spectator kick of the sweep (SpecSpec)                      *)

\* the commands o hold the kick of slot n for spectator abuse
SpecKicked(o, n) ==
    \E i \in 1..(Len(o) - 1) :
        /\ o[i] = Say("kicked, spectator too long")
        /\ o[i + 1] = Kick(n)

\* C33: a sweep kicks a player for spectator abuse only if the spectator
\* check is enabled and the player is on the spectator team at that sweep
C33_SpecKickOnlyOfSpectator ==
    [][ev'.type = "process" =>
        \A n \in DOMAIN players :
            SpecKicked(out', n)
            => num_kick_specs > 0 /\ players[n].team = TeamSpec]_vars

-----------------------------------------------------------------------------
(* The punitive commands of handle_say *)

\* the commands that act against another player, !warn apart
Punitive == {"!nuke", "!kick", "!tempban", "!slap", "!ban", "!kill", "!permban"}

\* the role the branch of a command asks of its issuer
CommandLevel(command) ==
    CASE command = "!warn" -> ModeratorRole
      [] command \in {"!nuke", "!kick", "!tempban", "!warnclear"} -> AdminRole
      [] command \in {"!slap", "!ban"} -> 60
      [] command \in {"!kill", "!permban", "!kiss", "!maprestart"} -> 80

\* the commands that ask for a reason after the name
NeedsReason(command) == command \in {"!kick", "!tempban", "!ban", "!permban"}

\* an RCON command on a player other than kick
OnPlayer(cmd, num) == [cmd |-> cmd, num |-> num, text |-> ""]

\* the innermost branch of a punitive command: what it does to the victim
punish(W, command, victim) ==
    CASE command = "!nuke" -> send_rcon(W, OnPlayer("nuke", victim))
      [] command = "!kick" -> rcon_say(kick_player(W, victim), "was kicked by")
      [] command = "!tempban" ->
            rcon_say(ban(W, victim, 3600, "ban by"), "banned for 1 hour")
      [] command = "!slap" -> send_rcon(W, OnPlayer("slap", victim))
      [] command = "!ban" ->
            rcon_say(ban(W, victim, 604800, "ban by"), "banned for 7 days")
      [] command = "!kill" -> send_rcon(W, OnPlayer("smite", victim))
      [] command = "!permban" ->
            rcon_say(ban(W, victim, 630720000, "ban by"), "banned permanently")

\* say_punish that lets an issuer act on a player of the same role
say_punish_peers(W, issuer, command, args, user) ==
    IF issuer \notin DOMAIN W.players THEN W
    ELSE IF \/ W.players[issuer].admin_role < CommandLevel(command)
            \/ command = "!kill" /\ ~urt42_modversion
         THEN unknown_command(W, issuer)
    ELSE IF args = 0 THEN rcon_tell(W, issuer, "usage")
    ELSE IF NeedsReason(command) /\ args = 1
         THEN rcon_tell(W, issuer, "enter a reason")
    ELSE IF ~player_found(W, user) THEN rcon_tell(W, issuer, "No Player found")
    ELSE IF W.players[user].admin_role > W.players[issuer].admin_role
         THEN rcon_tell(W, issuer, "You cannot")
    ELSE punish(W, command, user)

\* say_punish that does not ask for a role
say_punish_open(W, issuer, command, args, user) ==
    IF issuer \notin DOMAIN W.players THEN W
    ELSE IF args = 0 THEN rcon_tell(W, issuer, "usage")
    ELSE IF NeedsReason(command) /\ args = 1
         THEN rcon_tell(W, issuer, "enter a reason")
    ELSE IF ~player_found(W, user) THEN rcon_tell(W, issuer, "No Player found")
    ELSE IF W.players[user].admin_role >= W.players[issuer].admin_role
         THEN rcon_tell(W, issuer, "You cannot")
    ELSE punish(W, command, user)

\* handle_say, !nuke, !kick / !k, !tempban / !tb, !slap / !spank, !ban / !b,
\* !kill and !permban / !pb.  args: 0 = no argument, 1 = a name only,
\* 2 = a name and a reason (no number).  A line of an unknown slot raises
\* KeyError.
say_punish(W, issuer, command, args, user) ==
    IF issuer \notin DOMAIN W.players THEN W
    ELSE IF \/ W.players[issuer].admin_role < CommandLevel(command)
            \/ command = "!kill" /\ ~urt42_modversion
         THEN unknown_command(W, issuer)
    ELSE IF args = 0 THEN rcon_tell(W, issuer, "usage")
    ELSE IF NeedsReason(command) /\ args = 1
         THEN rcon_tell(W, issuer, "enter a reason")
    ELSE IF ~player_found(W, user) THEN rcon_tell(W, issuer, "No Player found")
    ELSE IF W.players[user].admin_role >= W.players[issuer].admin_role
         THEN rcon_tell(W, issuer, "You cannot")
    ELSE punish(W, command, user)

\* parse_line, "say:" with one of the punitive commands
SayPunish(issuer, command, args, user) ==
    /\ Commit(say_punish(Here, issuer, command, args, user))
    /\ ev' = [type |-> command, num |-> issuer, args |-> args, user |-> user]
    /\ UNCHANGED <<live, now, GameType, Balance, Config, iamgod>>

-----------------------------------------------------------------------------
(* SpecPunish: players of three roles and the commands that ask for a role   *)

MaxPunish == 1

\* the ClientUserinfo lines of SpecPunish: <<slot, payload>>; G0 is not
\* registered, GA is an Admin and GS a Senior Admin
ConnectsPunish ==
    {<<0, Userinfo(G0, "Bob")>>, <<0, Userinfo(GA, "Ann")>>,
     <<1, Userinfo(GA, "Ann")>>, <<1, Userinfo(GS, "Sen")>>}

InitPunish ==
    /\ xlrstats = (GA :> XlrRow(AdminRole)) @@ (GS :> XlrRow(80))
    /\ ban_list = <<>>
    /\ ban_points = <<>>
    /\ tk_autokick = TRUE
    /\ num_kick_specs = 0
    /\ max_ping = 0
    /\ urt42_modversion = TRUE
    /\ ffa_lms_gametype = FALSE
    /\ InitBase

\* the warnings of the connected players
WarningsPunish ==
    (IF 0 \in DOMAIN players THEN players[0].warn_counter ELSE 0)
    + (IF 1 \in DOMAIN players THEN players[1].warn_counter ELSE 0)

\* a step is taken only if it leaves the warnings and the tables within the
\* bound
WithinPunish == WarningsPunish + Len(ban_list) + Len(ban_points) <= MaxPunish

NextPunish ==
    \/ GoLive
    \/ \E c \in ConnectsPunish :
          c[1] \notin DOMAIN players /\ ClientUserinfo(c[1], c[2], FALSE)
    \/ \E n \in {0, 1} : ClientDisconnect(n)
    \/ \E i \in {0, 1}, u \in {0, 1}, reason \in {"obj", "tk"} :
          SayWarn(i, 2, u, reason) /\ WithinPunish'
    \/ \E i \in {0, 1}, u \in {0, 1}, command \in Punitive, args \in {1, 2} :
          SayPunish(i, command, args, u) /\ WithinPunish'
    \/ \E i \in {0, 1}, u \in {0, 1} : SayWarnClear(i, 1, u)
    \/ \E i \in {0, 1} : SayKiss(i)
    \/ \E i \in {0, 1} : SayMaprestart(i)

SpecPunish == InitPunish /\ [][NextPunish]_vars

\* the step handles a punitive command of a connected issuer on a connected
\* target
PunitiveLine ==
    /\ ev'.type \in Punitive \cup {"!warn"}
    /\ ev'.num \in DOMAIN players
    /\ ev'.user \in DOMAIN players

\* the commands o hold nothing but private messages to slot n
OnlyTells(o, n) == \A i \in 1..Len(o) : o[i].cmd = "tell" /\ o[i].num = n

\* C34: a punitive command on a target whose role is equal to or above the
\* issuer's leaves the target's warning counter, the ban list and the ban
\* points as they are and emits nothing but private messages to the issuer
C34_NoPunishingPeersOrSuperiors ==
    [][PunitiveLine
       /\ players[ev'.user].admin_role >= players[ev'.num].admin_role
       => /\ players'[ev'.user].warn_counter = players[ev'.user].warn_counter
          /\ ban_list' = ban_list
          /\ ban_points' = ban_points
          /\ OnlyTells(out', ev'.num)]_vars

\* an Admin tried to ban another Admin and was told so
C34_Witness ==
    /\ ev.type = "!tempban"
    /\ ev.args = 2
    /\ ev.num # ev.user
    /\ {ev.num, ev.user} \subseteq DOMAIN players
    /\ players[ev.num].admin_role = AdminRole
    /\ players[ev.user].admin_role = AdminRole
    /\ out = <<Tell(ev.num, "You cannot")>>

\* the step handles a command that asks for a role, of a connected issuer
\* whose role is below it
BelowLevelLine ==
    /\ ev'.type \in Punitive \cup {"!warn", "!warnclear", "!kiss", "!maprestart"}
    /\ ev'.num \in DOMAIN players
    /\ players[ev'.num].admin_role < CommandLevel(ev'.type)

\* C35: a command of an issuer whose role is below the level of the command
\* changes no player, no table and no match state, and emits nothing but
\* private messages to the issuer
C35_BelowLevelDoesNothing ==
    [][BelowLevelLine
       => /\ UNCHANGED <<players, ban_list, ban_points, xlrstats, live, GameType,
                         Balance, iamgod>>
          /\ OnlyTells(out', ev'.num)]_vars

\* an Admin tried the Full Admin command !ban on a player without a role and
\* was told that the command is unknown
C35_Witness ==
    /\ ev.type = "!ban"
    /\ ev.args = 2
    /\ {ev.num, ev.user} \subseteq DOMAIN players
    /\ players[ev.num].admin_role = AdminRole
    /\ players[ev.user].admin_role = 0
    /\ live
    /\ ban_list = <<>>
    /\ out = <<Tell(ev.num, "Unknown command")>>

-----------------------------------------------------------------------------
(* The group commands of handle_say *)

\* the role a group name of !putgroup stands for
GroupRole(right) ==
    CASE right = "user" -> 1
      [] right = "regular" -> RegularRole
      [] right \in {"mod", "moderator"} -> ModeratorRole
      [] right = "admin" -> AdminRole
      [] right = "fulladmin" -> 60
      [] right = "senioradmin" -> 80
      [] OTHER -> -1

\* handle_say, !putgroup.  args: the number of words after the command
say_putgroup(W, issuer, args, user, right) ==
    IF issuer \notin DOMAIN W.players THEN W
    ELSE IF W.players[issuer].admin_role < 80 THEN unknown_command(W, issuer)
    ELSE IF args < 2 THEN rcon_tell(W, issuer, "usage")
    ELSE IF ~player_found(W, user) THEN rcon_tell(W, issuer, "No Player found")
    ELSE LET W1 == register_user_db(W, user, 1)
             victim == W1.players[user]
             granted ==
                IF GroupRole(right) \in {1, RegularRole, ModeratorRole, AdminRole, 60}
                THEN victim.admin_role < 80
                ELSE /\ right = "senioradmin"
                     /\ W1.players[issuer].admin_role = 100
                     /\ user # issuer
         IN update_db_admin_role(
                rcon_tell(W1, issuer, IF granted THEN "put in group"
                                      ELSE "Sorry, you cannot put"),
                user, IF granted THEN GroupRole(right) ELSE victim.admin_role)

\* parse_line, "say:" with !putgroup
SayPutgroup(issuer, args, user, right) ==
    /\ Commit(say_putgroup(Here, issuer, args, user, right))
    /\ ev' = [type |-> "!putgroup", num |-> issuer, args |-> args, user |-> user,
              right |-> right]
    /\ UNCHANGED <<live, now, GameType, Balance, Config, iamgod>>

-----------------------------------------------------------------------------
(* SpecGroup: !iamgod and !putgroup with and without a Head Admin in storage *)

GH == <<"GH">>

\* the ClientUserinfo lines of SpecGroup: <<slot, payload>>
ConnectsGroup ==
    {<<0, Userinfo(GH, "Head")>>,
     <<1, Userinfo(GS, "Sen")>>, <<1, Userinfo(G1, "Al")>>}

\* the group names of the !putgroup lines of SpecGroup
RightsGroup == {"user", "senioradmin", "headadmin"}

InitGroup ==
    /\ xlrstats \in {(GS :> XlrRow(80)),
                     (GS :> XlrRow(80)) @@ (GH :> XlrRow(100))}
    /\ ban_list = <<>>
    /\ ban_points = <<>>
    /\ tk_autokick = TRUE
    /\ num_kick_specs = 0
    /\ max_ping = 0
    /\ urt42_modversion = TRUE
    /\ ffa_lms_gametype = FALSE
    /\ InitBase

NextGroup ==
    \/ GoLive
    \/ \E c \in ConnectsGroup : ClientUserinfo(c[1], c[2], FALSE)
    \/ \E n \in {0, 1} : ClientDisconnect(n)
    \/ \E i \in {0, 1} : SayIamgod(i)
    \/ \E i \in {0, 1} : SayPutgroup(i, 1, i, "user")
    \/ \E i \in {0, 1}, u \in {0, 1}, right \in RightsGroup :
          SayPutgroup(i, 2, u, right)

SpecGroup == InitGroup /\ [][NextGroup]_vars

\* the role storage holds for a guid, 0 without a row
StoredRole(x, guid) == IF guid \in DOMAIN x THEN x[guid].admin_role ELSE 0

\* the step gives the role to a guid in storage, or to the player of a slot,
\* that did not have it
NewlyGranted(role) ==
    \/ \E g \in DOMAIN xlrstats' :
          StoredRole(xlrstats', g) = role /\ StoredRole(xlrstats, g) # role
    \/ \E n \in DOMAIN players' :
          /\ players'[n].admin_role = role
          /\ n \in DOMAIN players => players[n].admin_role # role

\* the step is an identity line that loads the role from storage
LoadedFromStorage(role) ==
    /\ ev'.type = "ClientUserinfo"
    /\ xlrstats' = xlrstats
    /\ \A n \in DOMAIN players' :
          /\ players'[n].admin_role = role
          /\ n \in DOMAIN players => players[n].admin_role # role
          => StoredRole(xlrstats, players'[n].guid) = role

\* C36: Head Admin is newly given only by !iamgod, while the flag iamgod is
\* set, which it is at start exactly if storage holds no Head Admin and never
\* again once it is cleared, and the command clears it; Senior Admin is newly
\* given only by a !putgroup of a Head Admin on another player; apart from
\* that a player gets either role only by loading it from storage
C36_HeadAndSeniorAdminGrants ==
    [][/\ NewlyGranted(100) /\ ~LoadedFromStorage(100)
            => ev'.type = "!iamgod" /\ iamgod /\ ~iamgod'
       /\ NewlyGranted(80) /\ ~LoadedFromStorage(80)
            => /\ ev'.type = "!putgroup"
               /\ ev'.num # ev'.user
               /\ players[ev'.num].admin_role = 100
       /\ ev.type = "start" => iamgod = NoHeadAdmin(xlrstats)
       /\ ~iamgod => ~iamgod']_vars

-----------------------------------------------------------------------------
(* Claims on the killers that are exempt from the team-kill punishment
   (SpecKill) *)

\* the killer of the line is Regular or higher, or the auto-kick is disabled
ExemptKiller ==
    \/ players[ev'.killer].admin_role >= RegularRole
    \/ ~tk_autokick

-----------------------------------------------------------------------------
(* Claims on the consistency of the forgiveness lists (SpecForgive) *)

\* list.count(x)
Count(list, x) == Len(SelectSeq(list, LAMBDA e : e = x))

\* the entries for victim v in the victims list of the player of slot k
VictimEntries(k, v) ==
    IF k \in DOMAIN players THEN Count(players[k].tk_victim_names, v) ELSE 0

\* the entries for killer k in the killed-me list of the player of slot v
KillerEntries(k, v) ==
    IF v \in DOMAIN players THEN Count(players[v].tk_killer_names, k) ELSE 0

\* C38: in every reachable state, for every pair of slots K and V, the
\* victims list of K holds as many entries for V as the killed-me list of V
\* holds for K
C38_ListsConsistent ==
    \A k \in 0..2, v \in 0..2 : VictimEntries(k, v) = KillerEntries(k, v)

-----------------------------------------------------------------------------
(* Claims on the kill streaks (SpecAward) *)

\* C39: in every reachable state each player's maximum streak of the round
\* is at least the current streak, and the lifetime maximum is at least the
\* maximum of the round
C39_StreaksOrdered ==
    \A n \in DOMAIN players :
       /\ players[n].max_kill_streak >= players[n].killing_streak
       /\ players[n].db_killing_streak >= players[n].max_kill_streak

-----------------------------------------------------------------------------
(* SpecWorld: the World entry under lines that name slot 1022 *)

MaxWorld == 1

\* int(line[:2].strip()) of handle_userinfo, handle_userinfo_changed and
\* handle_disconnect, for a line that begins with the number n: the number
\* made of its first two digits
RECURSIVE line_slot(_)
line_slot(n) == IF n < 100 THEN n ELSE line_slot(n \div 10)

\* the slot numbers written in the identity and disconnect lines of SpecWorld
NumbersWorld == {0, World}

\* the death causes of the Kill lines of SpecWorld: MOD_FALLING,
\* MOD_CHANGE_TEAM, UT_MOD_HEGRENADE
CausesWorld == {6, 10, 25}

\* a step is taken only if it leaves the lifetime counters within the bound
WithinWorld ==
    \A n \in DOMAIN players : CountedDrop(players[n]) <= MaxWorld

NextWorld ==
    \/ GoLive
    \/ \E gt \in GameTypesKill : InitGame(gt)
    \/ Warmup
    \/ Exit
    \/ \E n \in NumbersWorld :
          ClientUserinfo(line_slot(n), Userinfo(G0, "Bob"), FALSE)
    \/ \E n \in NumbersWorld, t \in {1, TeamSpec} :
          ClientUserinfoChanged(line_slot(n), [t |-> t, n |-> "Bob"])
    \/ \E n \in NumbersWorld : ClientDisconnect(line_slot(n))
    \/ \E v \in {0, 10}, code \in CausesWorld :
          Kill(World, v, code, TRUE) /\ WithinWorld'

SpecWorld == InitRoundSpec /\ [][NextWorld]_vars

\* slot 1022 holds the World entry made by Game.__init__
WorldInSlot ==
    /\ World \in DOMAIN players
    /\ players[World].player_num = World
    /\ players[World].guid = WorldPlayer.guid
    /\ players[World].name = WorldPlayer.name
    /\ players[World].address = WorldPlayer.address

\* the step handles a Kill line by a non-client on a connected victim
NonClientKill ==
    /\ ev'.type = "Kill"
    /\ ev'.non_client
    /\ ev'.victim \in DOMAIN players
    /\ DeathCause(ev'.code) # ""

\* C40: World occupies slot 1022 in every reachable state, whatever identity,
\* disconnect, Warmup, InitGame and Exit lines arrive, and every Kill line by
\* a non-client counts one death of the victim
C40_WorldAlwaysThereAndKills ==
    [][/\ WorldInSlot /\ WorldInSlot'
       /\ NonClientKill
            => players'[ev'.victim].deaths = players[ev'.victim].deaths + 1]_vars

====
